---- MODULE Spec2Model ----
(***************************************************************************)
(* Verification model of the limited-visibility pathfinding crate:         *)
(* the Kalman belief grid (SampleGrid2d), the bit-packed grid, Bresenham   *)
(* ray casting, A* best-effort search, the path stores and the Sample-Star *)
(* control loop with its parallel rollouts.                                *)
(*                                                                         *)
(* Conventions.                                                            *)
(*  - A cell is <<x, y>>.  A usize that wrapped below zero is written as   *)
(*    its negative representative (-1 stands for 2^64 - 1): an unsigned    *)
(*    comparison "v < n" is then  v >= 0 /\ v < n, and wrapping_add on a   *)
(*    representative is plain addition for the small values used here.     *)
(*  - f32 probabilities and covariances are fixed-point numbers in units   *)
(*    of 1/Milli.  No value strictly between 0 and 1e-6 is representable,  *)
(*    so max(cov + r, 1e-6) is cov + r unless cov + r = 0.                 *)
(*  - Option<T>: None is <<>> and Some(v) is <<v>>.                        *)
(***************************************************************************)
EXTENDS Integers, Sequences, FiniteSets, Bags, TLC

VARIABLES
    grid,           \* SampleGrid2d: sample_grid, ground_truth, width, height
    rc,             \* raycast_update harness: the calls made so far and the last one
    sr,             \* search harness: the graph, the heuristic, the call and its result
    sm,             \* one rollout's scratch grids and the sample_adjacenct calls made on them
    ss,             \* SampleStar: previous, current, goal, kernel, final_path and the search's heuristics
    path_store,     \* SampleStar::path_store, behind its mutex
    no_path_store,  \* SampleStar::no_path_store, behind its mutex
    stats,          \* SampleStarStats::stat_store, behind its mutex
    valid_paths,    \* the counter of step, behind its mutex
    main,           \* the caller of step: where it is, what step returned, how many steps ran
    rollouts,       \* the locals of each rollout closure of the running step and its position
    locks,          \* the owner of each mutex of SampleStar and of the counter's: a rollout, or 0
    hist,           \* history of the running step: resets made by rollouts, the neighbour chosen
    fn              \* harness of the store, line, visibility and bit grid operations: the object and the last call

Abs(a) == IF a < 0 THEN -a ELSE a

Max(a, b) == IF a > b THEN a ELSE b

\* 1.0 in the fixed-point representation of f32
Milli == 1000

None == <<>>

Some(v) == <<v>>

\* Option::unwrap on a Some
Unwrap(o) == o[1]

(***************************************************************************)
(* util/matrix.rs                                                          *)
(***************************************************************************)

\* matrix![x; w, h]
MatrixFill(x, w, h) == [data |-> [k \in 1..(w * h) |-> x], width |-> w, height |-> h]

\* Index<usize> for Matrix followed by a slice index: m[row][col]
MatrixAt(m, row, col) == m.data[row * m.width + col + 1]

MatrixSet(m, row, col, v) == [m EXCEPT !.data[row * m.width + col + 1] = v]

\* matrix_overlay: the ((matrix_x, matrix_y), (i, j)) pairs of the kernel
\* offsets that fall inside the matrix
matrix_overlay(matrix_w, matrix_h, kernel_w, kernel_h, x, y) ==
    LET kernel_center_x == kernel_w \div 2
        kernel_center_y == kernel_h \div 2
    IN  { <<<<x + i - kernel_center_x, y + j - kernel_center_y>>, <<i, j>>>> :
            <<i, j>> \in { ij \in (0..(kernel_w - 1)) \X (0..(kernel_h - 1)) :
                /\ ij[1] + x - kernel_center_x >= 0
                /\ ij[2] + y - kernel_center_y >= 0
                /\ ij[1] + x - kernel_center_x < matrix_w
                /\ ij[2] + y - kernel_center_y < matrix_h } }

(***************************************************************************)
(* util/filter.rs                                                          *)
(***************************************************************************)

DEFAULT_COVARIANCE == Milli

KalmanDefault == [state |-> 0, covariance |-> DEFAULT_COVARIANCE]

\* KalmanNode::update.  kalman_gain = covariance / max(covariance + r, 1e-6)
\* is kept as the fraction covariance / den; the gain is 0 when covariance
\* is 0 (0 / 1e-6) and covariance / (covariance + r) otherwise.
KalmanUpdate(node, measurement, measurement_covariance) ==
    LET sum == node.covariance + measurement_covariance
        den == IF sum = 0 THEN 1 ELSE sum
        num == node.covariance
        diff == measurement - node.state
        step == (num * Abs(diff)) \div den
    IN  [state |-> IF diff >= 0 THEN node.state + step ELSE node.state - step,
         covariance |-> node.covariance - (node.covariance * num) \div den]

(***************************************************************************)
(* domains/mod.rs                                                          *)
(***************************************************************************)

\* neighbors((x, y), false): wrapping_add / wrapping_sub, in this order
neighbors(n) ==
    << <<n[1] + 1, n[2]>>, <<n[1], n[2] + 1>>, <<n[1] - 1, n[2]>>, <<n[1], n[2] - 1>> >>

\* Grid2d::bounds_check on usize coordinates
bounds_check(shape, n) ==
    n[1] >= 0 /\ n[2] >= 0 /\ n[1] < shape[1] /\ n[2] < shape[2]

SeqToSet(s) == { s[k] : k \in DOMAIN s }

(***************************************************************************)
(* domains/bitpackedgrids                                                  *)
(***************************************************************************)

PADDING == 2

LOG2_BITS_PER_WORD == 6

BITS_PER_WORD == 2 ^ LOG2_BITS_PER_WORD

\* BitPackedGrid2d::new.  map_cells is the set of the indices of the bits
\* that are 1; map_size is the number of words of the backing store.
BitPackedGrid2dNew(width, height) ==
    LET map_width_in_words == (width \div BITS_PER_WORD) + 1
        map_width == map_width_in_words * BITS_PER_WORD
        map_height == height + 2 * PADDING
    IN  [height |-> height, width |-> width,
         map_height |-> map_height, map_width |-> map_width,
         map_size |-> (map_width * map_height) \div BITS_PER_WORD,
         map_cells |-> {}]

\* BitPackedGrid2d::get_map_id
get_map_id(g, n) == g.map_width * (n[2] + PADDING) + (n[1] + PADDING)

\* BitPackedGrid2d::set_value
BitSetValue(g, n, value) ==
    IF value THEN [g EXCEPT !.map_cells = @ \cup {get_map_id(g, n)}]
    ELSE [g EXCEPT !.map_cells = @ \ {get_map_id(g, n)}]

\* BitPackedGrid2d::get_value
BitGetValue(g, n) == get_map_id(g, n) \in g.map_cells

\* mutant of count_ones: the words that are not 0 are counted
count_onesWords(g) == Cardinality({ i \div BITS_PER_WORD : i \in g.map_cells })

\* BitPackedGrid2d::count_ones
count_ones(g) == Cardinality(g.map_cells)

\* mutant of invert: the loops run over the border around the grid as well
invertWithBorder(g) ==
    LET cells == ((-1)..g.width) \X ((-1)..g.height)
        ids == { get_map_id(g, c) : c \in cells }
    IN  [g EXCEPT !.map_cells = (@ \ ids) \cup (ids \ @)]

\* BitPackedGrid2d::invert: set_value(c, !get_value(c)) flips the bit of
\* c, once for every in-bounds c; flips commute, so a bit ends flipped when
\* it is the bit of an odd number of in-bounds cells
invert(g) ==
    LET cells == (0..(g.width - 1)) \X (0..(g.height - 1))
        ids == { get_map_id(g, c) : c \in cells }
        flipped == { b \in ids : Cardinality({ c \in cells : get_map_id(g, c) = b }) % 2 = 1 }
    IN  [g EXCEPT !.map_cells = (@ \ flipped) \cup (flipped \ @)]

(***************************************************************************)
(* fov/linedrawing.rs                                                      *)
(***************************************************************************)

RECURSIVE BresenhamLoopHidesBlocker(_, _, _, _, _, _, _, _, _, _, _, _)
\* mutant of BresenhamLoop: the visibility check comes before the push
BresenhamLoopHidesBlocker(x, x1, y, error, dx, dy, ystep, steep, sign, visible, inbounds, line) ==
    IF x > x1 THEN line
    ELSE LET point == IF steep THEN <<y, sign * x>> ELSE <<sign * x, y>>
         IN  IF point \notin inbounds \/ point \notin visible THEN line
             ELSE LET e1 == error - dy
                  IN  IF e1 < 0
                      THEN BresenhamLoopHidesBlocker(x + 1, x1, y + ystep, e1 + dx, dx, dy, ystep,
                                         steep, sign, visible, inbounds, Append(line, point))
                      ELSE BresenhamLoopHidesBlocker(x + 1, x1, y, e1, dx, dy, ystep,
                                         steep, sign, visible, inbounds, Append(line, point))

RECURSIVE BresenhamLoop(_, _, _, _, _, _, _, _, _, _, _, _)
\* the for loop of bresenham; visible and inbounds are the sets on which
\* visibility_check and bounds_check answer true
BresenhamLoop(x, x1, y, error, dx, dy, ystep, steep, sign, visible, inbounds, line) ==
    IF x > x1 THEN line
    ELSE LET point == IF steep THEN <<y, sign * x>> ELSE <<sign * x, y>>
         IN  IF point \notin inbounds THEN line
             ELSE IF point \notin visible THEN Append(line, point)
             ELSE LET e1 == error - dy
                  IN  IF e1 < 0
                      THEN BresenhamLoop(x + 1, x1, y + ystep, e1 + dx, dx, dy, ystep,
                                         steep, sign, visible, inbounds, Append(line, point))
                      ELSE BresenhamLoop(x + 1, x1, y, e1, dx, dy, ystep,
                                         steep, sign, visible, inbounds, Append(line, point))

\* mutant of bresenham: the axes are never swapped
bresenhamNeverSteep(a, b, visible, inbounds) ==
    LET sign == IF a[1] > b[1] THEN -1 ELSE 1
        x0 == IF a[1] > b[1] THEN -1 * a[1] ELSE a[1]
        x1 == IF a[1] > b[1] THEN -1 * b[1] ELSE b[1]
        dx == x1 - x0
        dy == Abs(b[2] - a[2])
        ystep == IF a[2] < b[2] THEN 1 ELSE -1
    IN  BresenhamLoop(x0, x1, a[2], dx \div 2, dx, dy, ystep, FALSE, sign, visible, inbounds, <<>>)

\* bresenham
bresenham(a, b, visible, inbounds) ==
    LET steep == Abs(b[2] - a[2]) > Abs(b[1] - a[1])
        sx0 == IF steep THEN a[2] ELSE a[1]
        sy0 == IF steep THEN a[1] ELSE a[2]
        sx1 == IF steep THEN b[2] ELSE b[1]
        sy1 == IF steep THEN b[1] ELSE b[2]
        sign == IF sx0 > sx1 THEN -1 ELSE 1
        x0 == IF sx0 > sx1 THEN -1 * sx0 ELSE sx0
        x1 == IF sx0 > sx1 THEN -1 * sx1 ELSE sx1
        dx == x1 - x0
        dy == Abs(sy1 - sy0)
        ystep == IF sy0 < sy1 THEN 1 ELSE -1
        \* dx / 2 on a non-negative isize
        error == dx \div 2
    IN  BresenhamLoop(x0, x1, sy0, error, dx, dy, ystep, steep, sign, visible, inbounds, <<>>)

(***************************************************************************)
(* fov/fieldofvision.rs                                                    *)
(***************************************************************************)

\* raycast_matrix: rays go to the perimeter cells of the square of the given
\* radius that are in bounds; every cell a ray emits is visible.
raycast_matrix(c, radius, visible, inbounds) ==
    LET r == radius
        positions == UNION { { <<c[1] - r + i, c[2] - r>>, <<c[1] + r, c[2] - r + i>>,
                               <<c[1] + r - i, c[2] + r>>, <<c[1] - r, c[2] + r - i>> } :
                             i \in 0..(2 * r - 1) }
        targets == { p \in positions : p[1] >= 0 /\ p[2] >= 0 /\ p \in inbounds }
        seen == UNION { SeqToSet(bresenham(c, p, visible, inbounds)) : p \in targets }
        side == 2 * radius + 1
    IN  [data |-> [k \in 1..(side * side) |->
                    <<c[1] - radius + ((k - 1) % side), c[2] - radius + ((k - 1) \div side)>> \in seen],
         width |-> side, height |-> side]

(***************************************************************************)
(* domains/samplegrids/samplegrid2d.rs                                     *)
(***************************************************************************)

NEAREST_THRESHOLD == Milli \div 2

\* GridDomain::shape
shape(g) == <<g.width, g.height>>

\* the in-bounds cells of a grid
Cells(g) == (0..(g.width - 1)) \X (0..(g.height - 1))

\* SampleGrid2d::new: sample_grid is matrix![node; height, width], indexed [x][y]
SampleGrid2dNew(width, height) ==
    [sample_grid |-> MatrixFill(KalmanDefault, height, width),
     ground_truth |-> BitPackedGrid2dNew(width, height),
     width |-> width, height |-> height]

\* self.sample_grid[x][y]
NodeAt(g, n) == MatrixAt(g.sample_grid, n[1], n[2])

\* SampleGrid2d::set_value: writes the belief state and the ground truth
SampleSetValue(g, n, value) ==
    [g EXCEPT !.sample_grid = MatrixSet(@, n[1], n[2],
                                 [NodeAt(g, n) EXCEPT !.state = IF value THEN Milli ELSE 0]),
              !.ground_truth = BitSetValue(@, n, value)]

\* SampleGrid2d::get_value
SampleGetValue(g, n) ==
    bounds_check(shape(g), n) /\ NodeAt(g, n).state > NEAREST_THRESHOLD

\* SampleGrid2d::adjacent(n, false), in the order of neighbors
SampleAdjacent(g, n) == SelectSeq(neighbors(n), LAMBDA m : bounds_check(shape(g), m))

RECURSIVE SetRow(_, _, _, _)
\* the inner loop of new_from_string over the characters of line i
SetRow(g, line, i, j) ==
    IF j > Len(line) THEN g
    ELSE SetRow(IF line[j] = "." THEN SampleSetValue(g, <<j - 1, i>>, TRUE) ELSE g,
                line, i, j + 1)

RECURSIVE SetRows(_, _, _)
SetRows(g, lines, i) ==
    IF i > Len(lines) THEN g
    ELSE SetRows(SetRow(g, lines[i], i - 1, 1), lines, i + 1)

\* GridCreate2d::new_from_string on text already split into its content
\* lines, each line a sequence of characters
new_from_string(lines) ==
    SetRows(SampleGrid2dNew(Len(lines[1]), Len(lines)), lines, 1)

\* mutant of update_node: the measurement is written to the ground truth
update_nodeWritesTruth(g, n, measurement_covariance) ==
    [g EXCEPT !.ground_truth = BitSetValue(@, n, TRUE)]

\* SampleGrid2d::update_node
update_node(g, n, measurement_covariance) ==
    LET measurement == IF BitGetValue(g.ground_truth, n) THEN Milli ELSE 0
    IN  [g EXCEPT !.sample_grid = MatrixSet(@, n[1], n[2],
                     KalmanUpdate(NodeAt(g, n), measurement, measurement_covariance))]

\* SampleGrid2d::adjacency_kernel: the kernel lifted to Option, the centre
\* and its cross forced to Some(0.0)
adjacency_kernel(kernel) ==
    LET dx == kernel.width \div 2
        dy == kernel.height \div 2
        k0 == [kernel EXCEPT !.data = [k \in DOMAIN @ |-> Some(@[k])]]
        k1 == MatrixSet(k0, dx, dy, Some(0))
        k2 == MatrixSet(k1, Max(dx - 1, 0), dy, Some(0))
        k3 == MatrixSet(k2, dx, Max(dy - 1, 0), Some(0))
        k4 == MatrixSet(k3, dx + 1, dy, Some(0))
    IN  MatrixSet(k4, dx, dy + 1, Some(0))

\* GridVisibility2d::visibility
visibility(g, n, radius) ==
    raycast_matrix(n, radius, { c \in Cells(g) : SampleGetValue(g, c) }, Cells(g))

RECURSIVE UpdateCells(_, _, _)
\* the loop of update_kernel; the overlay cells are distinct, so the order
\* in which they are updated does not matter
UpdateCells(g, kernel, todo) ==
    IF todo = {} THEN g
    ELSE LET p == CHOOSE q \in todo : TRUE
             i == p[2][1]
             j == p[2][2]
         IN  UpdateCells(IF MatrixAt(kernel, j, i) # None
                         THEN update_node(g, p[1], Unwrap(MatrixAt(kernel, j, i))) ELSE g,
                         kernel, todo \ {p})

\* SampleGrid2d::update_kernel
update_kernel(g, n, kernel) ==
    UpdateCells(g, kernel,
                matrix_overlay(g.width, g.height, kernel.width, kernel.height, n[1], n[2]))

\* mutant of raycast_update: the kernel is not masked by the visibility
raycast_updateUnmasked(g, n, kernel) == update_kernel(g, n, adjacency_kernel(kernel))

\* SampleGrid2d::raycast_update
raycast_update(g, n, kernel) ==
    LET adj == adjacency_kernel(kernel)
        visible == visibility(g, n, adj.width \div 2)
        masked == [adj EXCEPT !.data =
                     [k \in DOMAIN adj.data |-> IF visible.data[k] THEN adj.data[k] ELSE None]]
    IN  update_kernel(g, n, masked)

\* the outputs of rng.gen::<f32>(), uniform in [0, 1), that are told apart
Draws == {0, Milli \div 4, Milli \div 2, Milli - 1}

\* mutant of sample_cached_value: a draw equal to the state also passes
sample_cached_valueInclusive(g, u, n) == u <= NodeAt(g, n).state

\* SampleGrid2d::sample_cached with the drawn number u: the value written
\* to the scratch grid and returned
sample_cached_value(g, u, n) == NodeAt(g, n).state # 0 /\ u < NodeAt(g, n).state

\* mutant of MarkSampled: the cell is not recorded as sampled
MarkSampledNever(sampled_before, n) == sampled_before

\* sampled_before.set_value(n, true) in the filter closure of sample_adjacenct
MarkSampled(sampled_before, n) == BitSetValue(sampled_before, n, TRUE)

\* the filter closure of sample_adjacenct on neighbour n, for every draw:
\* the set of <<included, gridmap, sampled_before, drawn, u>>, drawn telling
\* whether sample_cached took a number from rng and u the number it took
sample_neighbour(g, gridmap, sampled_before, n) ==
    IF bounds_check(shape(g), n) /\ ~BitGetValue(sampled_before, n)
    THEN { <<sample_cached_value(g, u, n),
             BitSetValue(gridmap, n, sample_cached_value(g, u, n)),
             MarkSampled(sampled_before, n),
             TRUE, u>> : u \in Draws }
    ELSE { <<BitGetValue(gridmap, n), gridmap, sampled_before, FALSE, 0>> }

RECURSIVE SampleNeighbours(_, _, _, _, _, _, _)
\* the neighbours k.. of nbrs pass through the filter in order; drawn is
\* the sequence of (cell, number drawn) of the sample_cached calls so far
SampleNeighbours(g, gridmap, sampled_before, nbrs, k, included, drawn) ==
    IF k > Len(nbrs)
    THEN { [children |-> included, gridmap |-> gridmap,
            sampled_before |-> sampled_before, drawn |-> drawn] }
    ELSE UNION { SampleNeighbours(g, o[2], o[3], nbrs, k + 1,
                                  IF o[1] THEN Append(included, <<nbrs[k], 1>>) ELSE included,
                                  IF o[4] THEN Append(drawn, [cell |-> nbrs[k], u |-> o[5]])
                                  ELSE drawn) :
                 o \in sample_neighbour(g, gridmap, sampled_before, nbrs[k]) }

\* SampleGrid2d::sample_adjacenct: every outcome of one call, as the
\* returned (node, 1) list, the scratch grids it leaves and the cells drawn
sample_adjacenct(g, gridmap, sampled_before, n) ==
    SampleNeighbours(g, gridmap, sampled_before, neighbors(n), 1, <<>>, <<>>)

(***************************************************************************)
(* search/mod.rs and search/astar.rs                                       *)
(***************************************************************************)

\* An expander is a record: kind "graph" answers from a fixed adjacency
\* function; kind "sample" is the closure of SampleStar::step over the
\* belief grid and the two scratch grids of the rollout.
GraphExpander(edges) == [kind |-> "graph", edges |-> edges]

SampleExpander(g, gridmap, sampled_before) ==
    [kind |-> "sample", grid |-> g, gridmap |-> gridmap, sampled_before |-> sampled_before]

\* expander(&node): every possible <<children, expander afterwards>>
Expand(ex, node) ==
    IF ex.kind = "graph" THEN { <<ex.edges[node], ex>> }
    ELSE { <<o.children, SampleExpander(ex.grid, o.gridmap, o.sampled_before)>> :
           o \in sample_adjacenct(ex.grid, ex.gridmap, ex.sampled_before, node) }

\* mutant of ShouldRelax: a child already in the map is never relaxed again
ShouldRelaxFirstOnly(previous, child, new_cost) == child \notin DOMAIN previous

\* the test of AStar::_search that admits a child to the open list
ShouldRelax(previous, child, new_cost) ==
    child \notin DOMAIN previous \/ new_cost < previous[child].cost

\* previous.insert(key, value)
MapInsert(m, key, value) ==
    [k \in DOMAIN m \cup {key} |-> IF k = key THEN value ELSE m[k]]

RECURSIVE RelaxChildren(_, _, _, _, _, _)
\* the for loop of AStar::_search over the children of node.  The open
\* list is the set of its <<node, f>> entries: a node is pushed again only
\* with a strictly smaller cost, so no entry occurs twice.
RelaxChildren(open, previous, node, children, k, h) ==
    IF k > Len(children) THEN <<open, previous>>
    ELSE LET child == children[k][1]
             new_cost == previous[node].cost + children[k][2]
         IN  IF ShouldRelax(previous, child, new_cost)
             THEN RelaxChildren(open \cup {<<child, new_cost + h[child]>>},
                                MapInsert(previous, child,
                                          [parent |-> Some(node), cost |-> new_cost]),
                                node, children, k + 1, h)
             ELSE RelaxChildren(open, previous, node, children, k + 1, h)

\* the entries BinaryHeap::pop may return: the cost is minimal, and among
\* equal costs the random key decides
PopCandidates(open) == { e \in open : \A o \in open : e[2] <= o[2] }

RECURSIVE AStarLoop(_, _, _, _, _)
\* the while loop of AStar::_search: every (previous, goal node, expander)
\* it can end with
AStarLoop(open, previous, ex, h, goals) ==
    IF open = {} THEN { [previous |-> previous, goal |-> None, expander |-> ex] }
    ELSE UNION {
           IF e[1] \in goals
           THEN { [previous |-> previous, goal |-> Some(e[1]), expander |-> ex] }
           ELSE UNION { LET r == RelaxChildren(open \ {e}, previous, e[1], x[1], 1, h)
                        IN  AStarLoop(r[1], r[2], x[2], h, goals) :
                        x \in Expand(ex, e[1]) } :
           e \in PopCandidates(open) }

\* AStar::_search
AStarSearch(ex, start, goals, h) ==
    AStarLoop({<<start, h[start]>>},
              MapInsert(<<>>, start, [parent |-> None, cost |-> 0]), ex, h, goals)

RECURSIVE PathToUnreversed(_, _)
\* mutant of PathTo: the path is not reversed
PathToUnreversed(parent, node) ==
    IF node \in DOMAIN parent /\ parent[node].parent # None
    THEN <<node>> \o PathToUnreversed(parent, Unwrap(parent[node].parent))
    ELSE <<node>>

RECURSIVE PathTo(_, _)
\* the while loop of reconstruct_path, already reversed
PathTo(parent, node) ==
    IF node \in DOMAIN parent /\ parent[node].parent # None
    THEN Append(PathTo(parent, Unwrap(parent[node].parent)), node)
    ELSE <<node>>

\* reconstruct_path
reconstruct_path(parent, node) == [path |-> PathTo(parent, node), cost |-> parent[node].cost]

Panic == [panicked |-> TRUE]

Returned(path, cost) == [panicked |-> FALSE, path |-> path, cost |-> cost]

\* Search::search for one outcome of _search: Some((path, cost)) or None
search_result(outcome) ==
    IF outcome.goal # None
    THEN Some(reconstruct_path(outcome.previous, Unwrap(outcome.goal)))
    ELSE None

\* BestSearch::best_search for one outcome of _search: every value it can
\* return.  min_by_key takes a minimum of the best heuristic over the nodes
\* that have a parent, in the iteration order of the hash map; unwrap()
\* panics when there is none.
best_search_results(outcome, best_heuristic) ==
    IF outcome.goal # None
    THEN LET r == reconstruct_path(outcome.previous, Unwrap(outcome.goal))
         IN  { Returned(r.path, r.cost) }
    ELSE LET distances == outcome.previous
             withParent == { n \in DOMAIN distances : distances[n].parent # None }
             best == { n \in withParent :
                         \A m \in withParent : best_heuristic[n] <= best_heuristic[m] }
         IN  IF withParent = {} THEN { Panic }
             ELSE { Returned(reconstruct_path(distances, n).path, best_heuristic[n]) : n \in best }

(***************************************************************************)
(* search/focalsearch.rs                                                   *)
(***************************************************************************)

\* The open list of FocalSearch, a BTreeMap from cost to a set of nodes, is
\* the set of its <<node, cost>> pairs.
\* FSOpenList::insert
FSInsert(open, node, cost) == open \cup {<<node, cost>>}

\* FSOpenList::remove: true whenever the map has a set for cost, whether or
\* not node was in that set
FSRemove(open, node, cost) ==
    [removed |-> \E e \in open : e[2] = cost, open |-> open \ {<<node, cost>>}]

\* FSOpenList::peak
FSPeak(open) ==
    IF open = {} THEN None
    ELSE Some(CHOOSE c \in { e[2] : e \in open } : \A e \in open : c <= e[2])

\* FocalSearch::new: the three closures.  focal_calc is c + slack.
FocalSearchNew(heuristic, focal_heuristic, slack) ==
    [heuristic |-> heuristic, focal_heuristic |-> focal_heuristic, slack |-> slack]

\* (self.focal_calc)(&c)
focal_calc(fs, c) == c + fs.slack

\* a SearchNode of the focal heap; its cost is the pair (focal cost, f)
FocalNode(node, focal_cost, f) == [node |-> node, cost |-> <<focal_cost, f>>]

\* Ord of the cost pair
CostLess(a, b) == a[1] < b[1] \/ (a[1] = b[1] /\ a[2] < b[2])

\* the entries focal.pop() may return: the cost pair is minimal, and among
\* equal costs the random key decides
FocalPopCandidates(focal) ==
    { e \in BagToSet(focal) : \A o \in BagToSet(focal) : ~CostLess(o.cost, e.cost) }

\* what one push onto focal is remembered by: the node, its f, the f_min
\* the test used and the least f of open at the push
Pushed(kind, node, f, f_min, open) ==
    [kind |-> kind, node |-> node, f |-> f, f_min |-> f_min, open_min |-> Unwrap(FSPeak(open))]

RECURSIVE FocalRelax(_, _, _, _, _, _)
\* the for loop of FocalSearch::_search over the children of node
FocalRelax(fs, st, node, children, k, f_min) ==
    IF k > Len(children) THEN st
    ELSE LET child == children[k][1]
             new_cost == st.previous[node].cost + children[k][2]
         IN  IF child \notin DOMAIN st.previous \/ new_cost < st.previous[child].cost
             THEN LET child_h == fs.heuristic[child] + new_cost
                      open == FSInsert(st.open, child, child_h)
                      within == new_cost <= focal_calc(fs, f_min)
                      entry == FocalNode(child, new_cost + fs.focal_heuristic[child], child_h)
                  IN  FocalRelax(fs,
                         [st EXCEPT !.open = open,
                                    !.previous = MapInsert(@, child,
                                                   [parent |-> Some(node), cost |-> new_cost]),
                                    !.focal = IF within THEN @ (+) SetToBag({entry}) ELSE @,
                                    !.pushed = IF within
                                               THEN @ \cup {Pushed("relax", child, child_h, f_min, open)}
                                               ELSE @],
                         node, children, k + 1, f_min)
             ELSE FocalRelax(fs, st, node, children, k + 1, f_min)

\* "Update Lower Bound": when the least f of open rose above f_min, the
\* open nodes between the two focal bounds are pushed
FocalPromote(fs, st, f_min) ==
    LET peak == FSPeak(st.open)
    IN  IF peak = None \/ ~(f_min < Unwrap(peak)) THEN st
        ELSE LET hcost == Unwrap(peak)
                 between == { e \in st.open : /\ e[2] > focal_calc(fs, f_min)
                                              /\ e[2] <= focal_calc(fs, hcost) }
             IN  [st EXCEPT
                    !.focal = @ (+) SetToBag({ FocalNode(e[1],
                                                 st.previous[e[1]].cost + fs.focal_heuristic[e[1]],
                                                 e[2]) : e \in between }),
                    !.pushed = @ \cup { Pushed("promote", e[1], e[2], hcost, st.open) : e \in between }]

\* the state of the loop before the first pop
FocalStart(fs, start) ==
    [open |-> FSInsert({}, start, fs.heuristic[start]),
     focal |-> SetToBag({FocalNode(start, fs.focal_heuristic[start], fs.heuristic[start])}),
     previous |-> MapInsert(<<>>, start, [parent |-> None, cost |-> 0]),
     done |-> FALSE, goal |-> None,
     popped |-> None, expanded |-> FALSE, pushed |-> {}]

\* the body of the while loop of FocalSearch::_search for the popped entry e
FocalIteration(fs, edges, goals, st, e) ==
    LET node == e.node
        fcost == e.cost[1]
        hcost == e.cost[2]
        popped == [st EXCEPT !.focal = @ (-) SetToBag({e}), !.popped = Some(e),
                             !.expanded = FALSE, !.pushed = {}]
    IN  IF node \in goals THEN [popped EXCEPT !.done = TRUE, !.goal = Some(node)]
        ELSE LET peak == FSPeak(st.open)
                 f_min == IF peak = None THEN fcost ELSE Unwrap(peak)
                 rm == FSRemove(st.open, node, hcost)
             IN  IF ~rm.removed THEN popped
                 ELSE FocalPromote(fs,
                        FocalRelax(fs, [popped EXCEPT !.open = rm.open, !.expanded = TRUE],
                                   node, edges[node], 1, f_min),
                        f_min)

\* focal.pop() returned None: _search returns (previous, None)
FocalExhausted(st) == [st EXCEPT !.done = TRUE, !.goal = None, !.popped = None,
                                 !.expanded = FALSE, !.pushed = {}]

RECURSIVE FocalLoop(_, _, _, _)
\* the while loop of FocalSearch::_search: every (previous, goal node) it
\* can end with
FocalLoop(fs, edges, goals, st) ==
    IF st.done THEN { [previous |-> st.previous, goal |-> st.goal] }
    ELSE IF BagToSet(st.focal) = {} THEN FocalLoop(fs, edges, goals, FocalExhausted(st))
    ELSE UNION { FocalLoop(fs, edges, goals, FocalIteration(fs, edges, goals, st, e)) :
                 e \in FocalPopCandidates(st.focal) }

\* FocalSearch::_search
FocalSearch(fs, edges, start, goals) == FocalLoop(fs, edges, goals, FocalStart(fs, start))

(***************************************************************************)
(* Map texts and priors used to build belief grids                         *)
(***************************************************************************)

\* the map of test_raycast_update, ".@..\n.@.@\n.@.@\n"
MapRaycastTest ==
    << <<".", "@", ".", ".">>, <<".", "@", ".", "@">>, <<".", "@", ".", "@">> >>

\* an open 3x3 map
MapOpen3 == << <<".", ".", ".">>, <<".", ".", ".">>, <<".", ".", ".">> >>

\* a 3x3 map with a wall below and beside the corner
MapWalled3 == << <<".", "@", ".">>, <<"@", ".", ".">>, <<".", ".", ".">> >>

\* every belief state of g replaced by s (as the tests do, writing the public
\* sample_grid field); covariances and ground truth are kept
WithStates(g, s) ==
    [g EXCEPT !.sample_grid.data = [k \in DOMAIN @ |-> [@[k] EXCEPT !.state = s]]]

\* the belief states of the passable cells of g replaced by s
WithFreeStates(g, s) ==
    [g EXCEPT !.sample_grid.data =
        [k \in DOMAIN @ |-> IF @[k].state = Milli THEN [@[k] EXCEPT !.state = s] ELSE @[k]]]

\* the ground truth bit of a cell as a measurement
Truth(g, n) == IF BitGetValue(g.ground_truth, n) THEN Milli ELSE 0

(***************************************************************************)
(* Specification SpecRaycast: raycast_update calls on a belief grid        *)
(***************************************************************************)

MaxRaycasts == 2

RaycastMaps == {MapRaycastTest, MapOpen3, MapWalled3}

\* uniform prior states: an asserted obstacle, undecided, the 0.6 of
\* test_raycast_update, free
PriorStates == {0, Milli \div 2, (6 * Milli) \div 10, Milli}

\* measurement-covariance kernels: matrix![0.0; 3], matrix![0.0; 5], matrix![1.0; 3]
RaycastKernels == {MatrixFill(0, 3, 3), MatrixFill(0, 5, 5), MatrixFill(Milli, 3, 3)}

RcIdle == [count |-> 0, centre |-> None, kernel |-> None]

SrIdle == [call |-> "idle"]

SmIdle == [calls |-> 0]

FnIdle == [call |-> "idle"]

starVars == <<ss, path_store, no_path_store, stats, valid_paths, locks, main, rollouts, hist>>

vars == <<grid, rc, sr, sm, fn, ss, path_store, no_path_store, stats, valid_paths, locks, main,
          rollouts, hist>>

\* no SampleStar has been constructed
StarIdle ==
    /\ ss = None
    /\ path_store = None
    /\ no_path_store = None
    /\ stats = None
    /\ valid_paths = 0
    /\ locks = None
    /\ main = [pc |-> "none"]
    /\ rollouts = None
    /\ hist = None

\* a grid for the specifications that use none
GridIdle == SampleGrid2dNew(1, 1)

InitRaycast ==
    /\ \E lines \in RaycastMaps :
         \/ grid = new_from_string(lines)
         \/ \E s \in PriorStates : grid = WithStates(new_from_string(lines), s)
         \/ grid = WithFreeStates(new_from_string(lines), (6 * Milli) \div 10)
    /\ rc = RcIdle
    /\ sr = SrIdle
    /\ sm = SmIdle
    /\ fn = FnIdle
    /\ StarIdle

\* one call grid.raycast_update(n, &kernel)
RaycastUpdate(n, kernel) ==
    /\ rc.count < MaxRaycasts
    /\ grid' = raycast_update(grid, n, kernel)
    /\ rc' = [count |-> rc.count + 1, centre |-> n, kernel |-> kernel]
    /\ UNCHANGED <<sr, sm, fn, starVars>>

NextRaycast ==
    \E n \in Cells(grid), kernel \in RaycastKernels : RaycastUpdate(n, kernel)

SpecRaycast == InitRaycast /\ [][NextRaycast]_vars

\* C3: after raycast_update((x,y), kernel) every in-bounds 4-neighbour of
\* (x,y) has belief state equal to its ground truth bit and covariance 0,
\* whatever the prior belief was.
C3_CrossPinned ==
    rc.count > 0 =>
        \A n \in SeqToSet(SampleAdjacent(grid, rc.centre)) :
            /\ NodeAt(grid, n).state = Truth(grid, n)
            /\ NodeAt(grid, n).covariance = 0
(***************************************************************************)
(* Specification SpecSearch: one call of search or best_search of an       *)
(* AStar on a finite weighted graph                                        *)
(***************************************************************************)

MaxCost == 1

SearchNodes == {0, 1, 2}

SearchStart == 0

\* an edge is absent (None) or has a cost (Some(c))
EdgeChoices == {None} \cup { Some(c) : c \in 0..MaxCost }

EdgePairs == { p \in SearchNodes \X SearchNodes : p[1] # p[2] }

RECURSIVE ChildrenFrom(_, _, _)
\* the (child, cost) list the expander returns for n, children in node order
ChildrenFrom(w, n, m) ==
    IF m \notin SearchNodes THEN <<>>
    ELSE IF m # n /\ w[<<n, m>>] # None
         THEN <<<<m, Unwrap(w[<<n, m>>])>>>> \o ChildrenFrom(w, n, m + 1)
         ELSE ChildrenFrom(w, n, m + 1)

EdgesOf(w) == [n \in SearchNodes |-> ChildrenFrom(w, n, 0)]

\* focal_calc(c) is c + slack, slack in 0..MaxSlack
MaxSlack == 1

\* the focal heuristic |_| 0 of test_focal_search_bitpacked_grid
ZeroHeuristic == [n \in SearchNodes |-> 0]

\* what a call keeps of the outcome of _search: the goal node and the nodes
\* of the parent map that have a parent
Explored(o) ==
    [goal |-> o.goal,
     with_parent |-> { n \in DOMAIN o.previous : o.previous[n].parent # None }]

InitSearch ==
    /\ \E w \in [EdgePairs -> EdgeChoices], h \in [SearchNodes -> 0..MaxCost],
          goals \in SUBSET SearchNodes :
         sr = [call |-> "none", w |-> w, edges |-> EdgesOf(w), h |-> h, goals |-> goals,
               start |-> SearchStart]
    /\ grid = GridIdle
    /\ rc = RcIdle
    /\ sm = SmIdle
    /\ fn = FnIdle
    /\ StarIdle

\* AStar::new(h).search(expander, start, goal)
CallSearch ==
    /\ sr.call = "none"
    /\ \E o \in AStarSearch(GraphExpander(sr.edges), sr.start, sr.goals, sr.h) :
         sr' = [sr EXCEPT !.call = "search"] @@ [result |-> search_result(o)] @@ Explored(o)
    /\ UNCHANGED <<grid, rc, sm, fn, starVars>>

\* AStar::new(h).best_search(expander, start, goal); new() makes the best
\* heuristic a clone of the heuristic
CallBestSearch ==
    /\ sr.call = "none"
    /\ \E o \in AStarSearch(GraphExpander(sr.edges), sr.start, sr.goals, sr.h) :
         \E b \in best_search_results(o, sr.h) :
            sr' = [sr EXCEPT !.call = "best_search"] @@ [result |-> b] @@ Explored(o)
    /\ UNCHANGED <<grid, rc, sm, fn, starVars>>

\* FocalSearch::new(h, |_| 0, |c| c + slack).search(expander, start, goal)
CallFocalSearch ==
    /\ sr.call = "none"
    /\ \E slack \in 0..MaxSlack :
         \E o \in FocalSearch(FocalSearchNew(sr.h, ZeroHeuristic, slack),
                              sr.edges, sr.start, sr.goals) :
            sr' = [sr EXCEPT !.call = "focal_search"] @@ [result |-> search_result(o)]
                  @@ Explored(o)
    /\ UNCHANGED <<grid, rc, sm, fn, starVars>>

\* FocalSearch::new(h, |_| 0, |c| c + slack).best_search(expander, start, goal);
\* get_best_heuristic is the heuristic
CallFocalBestSearch ==
    /\ sr.call = "none"
    /\ \E slack \in 0..MaxSlack :
         \E o \in FocalSearch(FocalSearchNew(sr.h, ZeroHeuristic, slack),
                              sr.edges, sr.start, sr.goals) :
            \E b \in best_search_results(o, sr.h) :
               sr' = [sr EXCEPT !.call = "focal_best_search"] @@ [result |-> b] @@ Explored(o)
    /\ UNCHANGED <<grid, rc, sm, fn, starVars>>

NextSearch == CallSearch \/ CallBestSearch \/ CallFocalSearch \/ CallFocalBestSearch

SpecSearch == InitSearch /\ [][NextSearch]_vars

\* C2: best_search returns a non-empty path for every start, expander and
\* goal predicate; with no child of a non-goal start it still returns [start].
C2_BestSearchReturnsPath ==
    sr.call = "best_search" => (~sr.result.panicked /\ Len(sr.result.path) >= 1)
\* the heuristic is consistent: h(n) <= c(n, m) + h(m) on every edge and
\* h is 0 on every goal node
Consistent ==
    /\ \A p \in EdgePairs : sr.w[p] # None => sr.h[p[1]] <= Unwrap(sr.w[p]) + sr.h[p[2]]
    /\ \A g \in sr.goals : sr.h[g] = 0

\* larger than the cost of every simple path
Unreachable == (MaxCost + 1) * Cardinality(SearchNodes)

RECURSIVE BellmanFord(_, _)
\* the least cost of a path with at most k more edges, from the start
BellmanFord(d, k) ==
    IF k = 0 THEN d
    ELSE BellmanFord(
           [n \in SearchNodes |->
              LET via == { d[m] + Unwrap(sr.w[<<m, n>>]) :
                           m \in { m \in SearchNodes \ {n} : sr.w[<<m, n>>] # None /\ d[m] < Unreachable } }
              IN  IF \E v \in via : v < d[n] THEN CHOOSE v \in via : \A u \in via : v <= u
                  ELSE d[n]],
           k - 1)

\* the least cost of a path from the start to each node
Dist ==
    BellmanFord([n \in SearchNodes |-> IF n = sr.start THEN 0 ELSE Unreachable],
                Cardinality(SearchNodes))

\* the least cost of a path from the start to a goal node
GoalDist == LET ds == { Dist[g] : g \in sr.goals } \cup {Unreachable}
            IN  CHOOSE v \in ds : \A u \in ds : v <= u

GoalReachable == GoalDist < Unreachable

\* path is a path of the graph from the start to a goal node
IsGoalPath(path) ==
    /\ Len(path) >= 1
    /\ path[1] = sr.start
    /\ path[Len(path)] \in sr.goals
    /\ \A k \in 1..(Len(path) - 1) : path[k] # path[k + 1] /\ sr.w[<<path[k], path[k + 1]>>] # None

RECURSIVE EdgeSum(_, _)
\* the sum of the edge costs along path, from its k-th node on
EdgeSum(path, k) ==
    IF k >= Len(path) THEN 0
    ELSE Unwrap(sr.w[<<path[k], path[k + 1]>>]) + EdgeSum(path, k + 1)

OptimalGoalPath(path, cost) ==
    /\ IsGoalPath(path)
    /\ cost = EdgeSum(path, 1)
    /\ cost = GoalDist

\* C4: with a consistent heuristic and non-negative edge costs, if a goal is
\* reachable then best_search and search return a start-to-goal path of
\* minimum cost, and the returned cost is the sum of its edge costs.
C4_AStarOptimal ==
    (sr.call \in {"search", "best_search"} /\ Consistent /\ GoalReachable) =>
        IF sr.call = "best_search"
        THEN ~sr.result.panicked /\ OptimalGoalPath(sr.result.path, sr.result.cost)
        ELSE sr.result # None
             /\ OptimalGoalPath(Unwrap(sr.result).path, Unwrap(sr.result).cost)

\* a call returned a path of two edges although the goal is also a child of
\* the start
C4_Witness ==
    /\ sr.call = "best_search"
    /\ Consistent
    /\ GoalReachable
    /\ ~sr.result.panicked
    /\ Len(sr.result.path) = 3
    /\ sr.w[<<sr.start, sr.result.path[3]>>] # None

(***************************************************************************)
(* Specification SpecSample: sample_adjacenct calls of one rollout, on     *)
(* one pair of scratch grids that is never reset                           *)
(***************************************************************************)

MaxSampleCalls == 3

\* a 3x2 map with one obstacle
MapSample == << <<".", ".", "@">>, <<".", ".", ".">> >>

\* a 2x2 open map
MapOpen2 == << <<".", ".">>, <<".", ".">> >>

SampleMaps == {MapSample, MapOpen2}

\* the scratch grids as the rollout closure of SampleStar::step makes them
InitSample ==
    /\ \E lines \in SampleMaps :
         \/ grid = new_from_string(lines)
         \/ \E st \in {Milli \div 2, (6 * Milli) \div 10} :
              grid = WithStates(new_from_string(lines), st)
         \/ grid = WithFreeStates(new_from_string(lines), Milli \div 2)
    /\ sm = [calls |-> 0,
             gridmap |-> BitPackedGrid2dNew(grid.width, grid.height),
             sampled_before |-> BitPackedGrid2dNew(grid.width, grid.height),
             log |-> <<>>,
             draws |-> <<>>,
             last |-> <<>>]
    /\ rc = RcIdle
    /\ sr = SrIdle
    /\ fn = FnIdle
    /\ StarIdle

\* one call grid.sample_adjacenct(&mut gridmap, &mut sampled_before, &mut rng, n);
\* log keeps (n, returned list) of every call, draws keeps (cell, value) of
\* every sample_cached call, in order, and last keeps (cell, number drawn) of
\* the sample_cached calls of the latest call
SampleAdjacenct(n) ==
    /\ sm.calls < MaxSampleCalls
    /\ \E o \in sample_adjacenct(grid, sm.gridmap, sm.sampled_before, n) :
         sm' = [calls |-> sm.calls + 1,
                gridmap |-> o.gridmap,
                sampled_before |-> o.sampled_before,
                log |-> Append(sm.log, [cell |-> n, children |-> o.children]),
                draws |-> sm.draws \o
                          [k \in DOMAIN o.drawn |->
                              [cell |-> o.drawn[k].cell,
                               value |-> BitGetValue(o.gridmap, o.drawn[k].cell)]],
                last |-> o.drawn]
    /\ UNCHANGED <<grid, rc, sr, fn, starVars>>

NextSample == \E n \in Cells(grid) : SampleAdjacenct(n)

SpecSample == InitSample /\ [][NextSample]_vars

\* C5: within one rollout every call of sample_adjacenct from a cell
\* returns the included neighbours of the first call from that cell,
\* whatever calls are made in between; every cell is drawn at most once and
\* its realized value in the scratch grid never changes afterwards.
C5_SampleOnce ==
    sm.calls > 0 =>
        /\ \A i, j \in DOMAIN sm.log :
              sm.log[i].cell = sm.log[j].cell => sm.log[i].children = sm.log[j].children
        /\ \A i, j \in DOMAIN sm.draws :
              sm.draws[i].cell = sm.draws[j].cell => i = j
        /\ \A i \in DOMAIN sm.draws :
              BitGetValue(sm.gridmap, sm.draws[i].cell) = sm.draws[i].value

\* a cell is asked again after a call from another cell; its first answer
\* included some neighbour and left out an in-bounds one
C5_Witness ==
    /\ sm.calls >= 3
    /\ sm.log[1].cell = sm.log[3].cell
    /\ sm.log[2].cell # sm.log[1].cell
    /\ sm.log[1].children # <<>>
    /\ Len(sm.log[1].children) < Len(SampleAdjacent(grid, sm.log[1].cell))
    /\ Len(sm.draws) >= 3

(***************************************************************************)
(* heuristics/distance.rs and heuristics/probability.rs                    *)
(***************************************************************************)

\* manhattan_distance
manhattan_distance(a, b) == Abs(a[1] - b[1]) + Abs(a[2] - b[2])

\* the value that stands for +infinity scaled by 1000 and cast to usize
\* (usize::MAX): larger than every finite scaled sum that occurs
ProbInf == Milli * Milli

\* -1.0 * state.log2(), in units of 1/Milli, for the belief states that
\* have an exact logarithm; -log2(0) is +infinity
NegLog2(state) ==
    CASE state = Milli -> 0
      [] state = Milli \div 2 -> Milli
      [] state = Milli \div 4 -> 2 * Milli
      [] state = 0 -> ProbInf

\* more hops than any path of the grid has
HopRadix(g) == g.width * g.height + 1

\* ProbabilityNode(p, hops) as one integer with the derived (lexicographic)
\* order of the struct; addition of the float saturates at +infinity
ProbNode(g, p, hops) == (IF p >= ProbInf THEN ProbInf ELSE p) * HopRadix(g) + hops

\* ProbabilityNode + ProbabilityNode(f, 1)
ProbAdd(g, node, f) == ProbNode(g, (node \div HopRadix(g)) + f, (node % HopRadix(g)) + 1)

\* one round of relaxations of the map of _search (None: not in the map
\* yet): every cell takes the least of its cost and the cost through a
\* neighbour
ProbRelax(g, goal, d) ==
    [n \in Cells(g) |->
        IF n = goal THEN d[n]
        ELSE LET via == { ProbAdd(g, Unwrap(d[m]), NegLog2(NodeAt(g, n).state)) :
                          m \in { q \in SeqToSet(SampleAdjacent(g, n)) : d[q] # None } }
                 all == via \cup (IF d[n] = None THEN {} ELSE {Unwrap(d[n])})
             IN  IF all = {} THEN None
                 ELSE Some(CHOOSE c \in all : \A o \in all : c <= o)]

RECURSIVE ProbFix(_, _, _)
\* the map _search ends with when the goal predicate is never true: the
\* while loop relaxes until no cost decreases, so every cell holds its least
\* cost from goal, whatever the order of the pops
ProbFix(g, goal, d) ==
    LET e == ProbRelax(g, goal, d)
    IN  IF e = d THEN d ELSE ProbFix(g, goal, e)

\* compute_probability: the closure n |-> (x, hops) as a function on cells
compute_probability(g, goal) ==
    LET map == ProbFix(g, goal,
                       [n \in Cells(g) |-> IF n = goal THEN Some(ProbNode(g, 0, 0)) ELSE None])
    IN  [n \in Cells(g) |-> Unwrap(map[n])]

(***************************************************************************)
(* search/pathstore.rs: AccStore built by new_count_store                  *)
(***************************************************************************)

\* AccStore::new: an empty HashMap
AccStoreNew == <<>>

\* mutant of reinitialize: the store is left as it is
reinitializeKeep(store) == store

\* AccStore::reinitialize
reinitialize(store) == AccStoreNew

RECURSIVE add_path_from(_, _, _)
\* the for loop of AccStore::add_path from node k on; the heuristic of a
\* count store is |_| 1
add_path_from(store, path, k) ==
    IF k > Len(path) THEN store
    ELSE LET node == path[k]
             entry == IF node \in DOMAIN store THEN store[node] ELSE 0
         IN  add_path_from(MapInsert(store, node, entry + 1), path, k + 1)

\* mutant of add_path: the store keeps the last path only
add_pathOverwrite(store, path) == add_path_from(AccStoreNew, path, 1)

\* AccStore::add_path
add_path(store, path) == add_path_from(store, path, 1)

\* mutant of next_node: the first node, in the store or not
next_nodeAny(store, nodes) == IF nodes = <<>> THEN None ELSE Some(nodes[1])

\* mutant of next_node: the first candidate of the store, whatever its bucket
next_nodeFirst(store, nodes) ==
    LET kept == SelectSeq(nodes, LAMBDA n : n \in DOMAIN store)
    IN  IF kept = <<>> THEN None ELSE Some(kept[1])

\* AccStore::next_node: max_by_key returns the last of the maximal elements
next_node(store, nodes) ==
    LET kept == SelectSeq(nodes, LAMBDA n : n \in DOMAIN store)
        best == { k \in DOMAIN kept : \A j \in DOMAIN kept : store[kept[j]] <= store[kept[k]] }
    IN  IF kept = <<>> THEN None
        ELSE Some(kept[CHOOSE k \in best : \A j \in best : j <= k])

(***************************************************************************)
(* search/samplestarstats.rs                                               *)
(***************************************************************************)

\* An f32 statistic is the fraction <<num, den>>; den = 0 is the result of
\* a division by 0.0 (an infinity, or NaN when num = 0).
\* SampleStarStats::new without path_stats and step_stats: the entries
\* "Paths", "Exp", "AVG Len"
SampleStarStatsNew == << <<0, 1>>, <<0, 1>>, <<0, 1>> >>

\* SampleStarStats::add
add(stat_store, index, val) ==
    [stat_store EXCEPT ![index + 1] = <<@[1] + val * @[2], @[2]>>]

\* SampleStarStats::collate_path_stats: stat_store[1..path_stats.len() + 3]
collate_path_stats(stat_store, epochs) ==
    [k \in DOMAIN stat_store |->
        IF k - 1 >= 1 /\ k - 1 < 3
        THEN <<stat_store[k][1], stat_store[k][2] * epochs>>
        ELSE stat_store[k]]

\* SampleStarStats::clear
clear(stat_store) == [k \in DOMAIN stat_store |-> <<0, 1>>]

(***************************************************************************)
(* search/samplestar.rs                                                    *)
(***************************************************************************)

\* the locals of a rollout closure that has not searched yet
RolloutStart ==
    [pc |-> "search", path |-> <<>>, weight |-> 0, found_path |-> FALSE,
     no_valid_paths |-> FALSE, exp |-> 0]

\* lines 96-107 of step: the scratch grids, best_search with the sampling
\* expander, found_path; every outcome as Panic or the locals it leaves.
\* exp is sampled_before.count_ones().
rollout_results(g, star) ==
    LET gridmap == BitPackedGrid2dNew(g.width, g.height)
        sampled_before == gridmap
    IN  UNION { { IF b.panicked THEN Panic
                  ELSE [panicked |-> FALSE, path |-> b.path, weight |-> b.cost,
                        found_path |-> b.path[Len(b.path)] = star.goal,
                        exp |-> count_ones(o.expander.sampled_before)] :
                  b \in best_search_results(o, star.best_heuristic) } :
                o \in AStarSearch(SampleExpander(g, gridmap, sampled_before),
                                  star.current, {star.goal}, star.heuristic) }

\* the mutexes: one around each store, one around the statistics, one
\* around the counter of step
Mutexes == {"path_store", "no_path_store", "stats", "valid_paths"}

\* no mutex is held
LocksFree == [m \in Mutexes |-> 0]

\* the mutex the next statement of a rollout locks, if any
MutexOf(r) ==
    CASE r.pc \in {"search", "increment"} -> Some("valid_paths")
      [] r.pc = "reset_no_path" -> Some("no_path_store")
      [] r.pc \in {"reset_stats", "stats"} -> Some("stats")
      [] r.pc = "add_path" -> IF r.found_path THEN Some("path_store")
                              ELSE IF r.no_valid_paths THEN Some("no_path_store")
                              ELSE None
      [] OTHER -> None

\* rollout i can run its next statement: the mutex of the statement is
\* free or already held by i
MayEnter(i) ==
    IF MutexOf(rollouts[i]) = None THEN TRUE
    ELSE locks[Unwrap(MutexOf(rollouts[i]))] \in {0, i}

\* the thread of step can lock the mutexes ms: none is held by a rollout
MainMayLock(ms) == \A m \in ms : locks[m] = 0

\* mutant of Release: the guard is never dropped
ReleaseNever(held, i) == held

\* the MutexGuard of rollout i is dropped at the end of the statement
Release(held, i) == [m \in DOMAIN held |-> IF held[m] = i THEN 0 ELSE held[m]]

\* mutant of increment: the counter is set, not incremented
incrementLost(v) == 1

\* *valid_paths.lock().unwrap() += 1
increment(v) == v + 1

\* mutant of bump: the agent walks into the obstacle
bumpNever(g, current, previous) == current

\* the bump of step: an obstacle of the ground truth sends the agent back
bump(g, current, previous) ==
    IF ~BitGetValue(g.ground_truth, current) THEN previous ELSE current

\* mutant of push: nothing is pushed
pushNothing(final_path, node) == final_path

\* self.final_path.push(node)
push(final_path, node) == Append(final_path, node)

(***************************************************************************)
(* Specification Spec: a SampleStar over an AStar with the Manhattan       *)
(* heuristic and two counting AccStores; step is called again and again,   *)
(* its rollouts interleave at every access to a mutex                      *)
(***************************************************************************)

\* the number of rollouts of a step
Epoch == 2

\* the number of steps that run rollouts
MaxSteps == 2

\* a corridor of three cells
MapCorridor == << <<".", ".", ".">> >>

\* a 2x2 map with an obstacle below the start
MapBend == << <<".", ".">>, <<"@", ".">> >>

\* the belief grids given to SampleStar::new: the map as read and with
\* every state at 1.0
SharpPriors(lines) ==
    {new_from_string(lines), WithStates(new_from_string(lines), Milli)}

\* the same and the map with every state at 0.5
StarPriors(lines) ==
    SharpPriors(lines) \cup {WithStates(new_from_string(lines), Milli \div 2)}

StarProblems ==
    { [grid |-> g, start |-> <<0, 0>>, goal |-> <<2, 0>>] : g \in StarPriors(MapCorridor) }
    \cup { [grid |-> g, start |-> <<0, 0>>, goal |-> <<1, 1>>] : g \in StarPriors(MapBend) }
    \cup { [grid |-> g, start |-> <<0, 0>>, goal |-> <<2, 1>>] : g \in SharpPriors(MapSample) }

Rollouts == 1..Epoch

\* SampleStar::new(grid, AStar::new(manhattan to goal), start, goal, Epoch,
\* matrix![0.0; 3], AccStore::new_count_store(), AccStore::new_count_store(),
\* SampleStarStats::new(vec![], vec![]))
SampleStarWith(problems, limit, epochs) ==
    /\ \E p \in problems, epoch \in epochs :
         /\ grid = p.grid
         /\ bounds_check(shape(grid), p.start) /\ bounds_check(shape(grid), p.goal)
         /\ ss = [previous |-> p.start, current |-> p.start, goal |-> p.goal, epoch |-> epoch,
                  kernel |-> MatrixFill(0, 3, 3), final_path |-> <<p.start>>,
                  heuristic |-> [n \in Cells(grid) |-> manhattan_distance(n, p.goal)],
                  best_heuristic |-> [n \in Cells(grid) |-> manhattan_distance(n, p.goal)]]
         /\ hist = [start |-> p.start, fallback_resets |-> 0, stats_resets |-> 0]
    /\ path_store = AccStoreNew
    /\ no_path_store = AccStoreNew
    /\ stats = SampleStarStatsNew
    /\ valid_paths = 0
    /\ locks = LocksFree
    /\ main = [pc |-> "idle", ret |-> None, steps |-> 0, limit |-> limit, outcomes |-> {}]
    /\ rollouts = [i \in Rollouts |-> [RolloutStart EXCEPT !.pc = "done"]]
    /\ rc = RcIdle
    /\ sr = SrIdle
    /\ sm = SmIdle
    /\ fn = FnIdle

\* SampleStar::new with epoch = Epoch
SampleStarNew(problems, limit) == SampleStarWith(problems, limit, {Epoch})

Init == SampleStarNew(StarProblems, MaxSteps)

\* step, lines 83-85: the agent is on the goal
StepDone ==
    /\ main.pc = "idle"
    /\ ss.current = ss.goal
    /\ main' = [main EXCEPT !.ret = Some(TRUE)]
    /\ UNCHANGED <<locks, grid, rc, sr, sm, fn, ss, path_store, no_path_store, stats, valid_paths,
                   rollouts, hist>>

\* step, lines 86-95: the stores and the statistics are emptied, the belief
\* is updated, the best heuristic is replaced, the rollouts are launched
StepBegin ==
    /\ main.pc = "idle"
    /\ ss.current # ss.goal
    /\ main.steps < main.limit
    /\ MainMayLock({"path_store", "no_path_store", "stats"})
    /\ path_store' = reinitialize(path_store)
    /\ no_path_store' = reinitialize(no_path_store)
    /\ stats' = clear(stats)
    /\ grid' = raycast_update(grid, ss.current, ss.kernel)
    /\ ss' = [ss EXCEPT !.best_heuristic = compute_probability(grid', ss.goal)]
    /\ valid_paths' = 0
    /\ rollouts' = [i \in Rollouts |-> IF i <= ss.epoch THEN RolloutStart
                                       ELSE [RolloutStart EXCEPT !.pc = "done"]]
    /\ main' = [main EXCEPT !.pc = "fanout", !.ret = None,
                            !.outcomes = rollout_results(grid', ss')]
    /\ hist' = [hist EXCEPT !.fallback_resets = 0, !.stats_resets = 0]
    /\ UNCHANGED <<locks, rc, sr, sm, fn>>

\* rollout i, lines 96-108: the search touches nothing shared, so it is one
\* step with the first shared access, the read of valid_paths; what the
\* search can return on the belief and the heuristic of this step
\* (rollout_results) is computed once, when the fan-out begins
RolloutSearch(i) ==
    /\ main.pc = "fanout"
    /\ rollouts[i].pc = "search"
    /\ MayEnter(i)
    /\ locks' = Release(locks, i)
    /\ \E r \in main.outcomes :
         rollouts' = [rollouts EXCEPT ![i] =
            IF r.panicked THEN [@ EXCEPT !.pc = "panicked"]
            ELSE [pc |-> IF valid_paths = 0 /\ r.found_path THEN "reset_no_path"
                         ELSE IF r.found_path THEN "increment" ELSE "stats",
                  path |-> r.path, weight |-> r.weight, found_path |-> r.found_path,
                  no_valid_paths |-> (valid_paths = 0), exp |-> r.exp]]
    /\ UNCHANGED <<grid, rc, sr, sm, fn, ss, path_store, no_path_store, stats, valid_paths,
                   main, hist>>

\* rollout i, line 111
ResetNoPathStore(i) ==
    /\ rollouts[i].pc = "reset_no_path"
    /\ MayEnter(i)
    /\ locks' = Release(locks, i)
    /\ no_path_store' = reinitialize(no_path_store)
    /\ hist' = [hist EXCEPT !.fallback_resets = @ + 1]
    /\ rollouts' = [rollouts EXCEPT ![i].pc = "reset_stats"]
    /\ UNCHANGED <<grid, rc, sr, sm, fn, ss, path_store, stats, valid_paths, main>>

\* rollout i, line 112
ResetStats(i) ==
    /\ rollouts[i].pc = "reset_stats"
    /\ MayEnter(i)
    /\ locks' = Release(locks, i)
    /\ stats' = clear(stats)
    /\ hist' = [hist EXCEPT !.stats_resets = @ + 1]
    /\ rollouts' = [rollouts EXCEPT ![i].pc = "increment"]
    /\ UNCHANGED <<grid, rc, sr, sm, fn, ss, path_store, no_path_store, valid_paths, main>>

\* rollout i, lines 114-116
IncrementValidPaths(i) ==
    /\ rollouts[i].pc = "increment"
    /\ MayEnter(i)
    /\ locks' = Release(locks, i)
    /\ valid_paths' = increment(valid_paths)
    /\ rollouts' = [rollouts EXCEPT ![i].pc = "stats"]
    /\ UNCHANGED <<grid, rc, sr, sm, fn, ss, path_store, no_path_store, stats, main, hist>>

\* rollout i, lines 117-122, under the lock of stats
UpdateStats(i) ==
    /\ rollouts[i].pc = "stats"
    /\ MayEnter(i)
    /\ locks' = Release(locks, i)
    /\ stats' = add(add(stats, 1, rollouts[i].exp), 2, rollouts[i].weight)
    /\ rollouts' = [rollouts EXCEPT ![i].pc = "add_path"]
    /\ UNCHANGED <<grid, rc, sr, sm, fn, ss, path_store, no_path_store, valid_paths, main, hist>>

\* rollout i, lines 123-127
AddPath(i) ==
    /\ rollouts[i].pc = "add_path"
    /\ MayEnter(i)
    /\ locks' = Release(locks, i)
    /\ IF rollouts[i].found_path
       THEN /\ path_store' = add_path(path_store, rollouts[i].path)
            /\ UNCHANGED no_path_store
       ELSE IF rollouts[i].no_valid_paths
       THEN /\ no_path_store' = add_path(no_path_store, rollouts[i].path)
            /\ UNCHANGED path_store
       ELSE UNCHANGED <<path_store, no_path_store>>
    /\ rollouts' = [rollouts EXCEPT ![i].pc = "done"]
    /\ UNCHANGED <<grid, rc, sr, sm, fn, ss, stats, valid_paths, main, hist>>

\* the parallel iterator ends with a panic of one of its closures: step
\* does not return
StepPanic ==
    /\ main.pc = "fanout"
    /\ \A i \in Rollouts : rollouts[i].pc \in {"done", "panicked"}
    /\ \E i \in Rollouts : rollouts[i].pc = "panicked"
    /\ main' = [main EXCEPT !.pc = "panicked"]
    /\ UNCHANGED <<locks, grid, rc, sr, sm, fn, ss, path_store, no_path_store, stats, valid_paths,
                   rollouts, hist>>

\* step, lines 129-152, after every rollout has joined
StepJoin ==
    /\ main.pc = "fanout"
    /\ \A i \in Rollouts : rollouts[i].pc = "done"
    /\ MainMayLock({"valid_paths", IF valid_paths > 0 THEN "path_store" ELSE "no_path_store",
                    "stats"})
    /\ LET adj == SampleAdjacent(grid, ss.current)
           store == IF valid_paths > 0 THEN path_store ELSE no_path_store
           next == next_node(store, adj)
           chosen == IF next = None THEN ss.current ELSE Unwrap(next)
           current == bump(grid, chosen, ss.current)
       IN  /\ stats' = collate_path_stats(add(stats, 0, valid_paths), valid_paths)
           /\ ss' = [ss EXCEPT !.previous = ss.current, !.current = current,
                               !.final_path = push(ss.final_path, current)]
    /\ main' = [main EXCEPT !.pc = "idle", !.ret = Some(FALSE), !.steps = main.steps + 1]
    /\ UNCHANGED <<locks, grid, rc, sr, sm, fn, path_store, no_path_store, valid_paths, rollouts, hist>>

Next ==
    \/ StepDone
    \/ StepBegin
    \/ \E i \in Rollouts :
         \/ RolloutSearch(i)
         \/ ResetNoPathStore(i)
         \/ ResetStats(i)
         \/ IncrementValidPaths(i)
         \/ UpdateStats(i)
         \/ AddPath(i)
    \/ StepPanic
    \/ StepJoin

Spec == Init /\ [][Next]_vars

\* a step that ran rollouts has returned (not done) and no other has begun
AfterStep == main.pc = "idle" /\ main.ret = Some(FALSE)

\* every rollout of the running step has finished its closure
AtJoin == main.pc = "fanout" /\ \A i \in Rollouts : rollouts[i].pc = "done"

\* the number of times cell n occurs in path
Occurrences(path, n) == Cardinality({ k \in DOMAIN path : path[k] = n })

RECURSIVE OccurrencesOver(_, _)
\* the number of times cell n occurs over the paths of the rollouts in todo
OccurrencesOver(todo, n) ==
    IF todo = {} THEN 0
    ELSE LET i == CHOOSE j \in todo : TRUE
         IN  Occurrences(rollouts[i].path, n) + OccurrencesOver(todo \ {i}, n)

\* C1: after any sequence of step calls final_path[0] is the start cell,
\* current is the last element of final_path and in bounds, consecutive
\* cells of final_path are equal or 4-adjacent, and when step returned done
\* the last element of final_path is goal.
C1_FinalPath ==
    /\ ss.final_path[1] = hist.start
    /\ ss.current = ss.final_path[Len(ss.final_path)]
    /\ bounds_check(shape(grid), ss.current)
    /\ \A k \in 1..(Len(ss.final_path) - 1) :
          manhattan_distance(ss.final_path[k], ss.final_path[k + 1]) <= 1
    /\ main.ret = Some(TRUE) => ss.final_path[Len(ss.final_path)] = ss.goal

\* step returned done after two moves
C1_Witness ==
    /\ main.ret = Some(TRUE)
    /\ Len(ss.final_path) = 3
    /\ ss.final_path[2] # ss.final_path[1]
    /\ ss.final_path[3] # ss.final_path[2]

\* C6: after a step that did not return done, if the neighbour chosen from
\* the active store is an obstacle of the ground truth the agent is where
\* it was before the step, otherwise it is on the chosen neighbour (or
\* where it was when the active store names no neighbour).
C6_Bump ==
    AfterStep =>
        LET store == IF valid_paths > 0 THEN path_store ELSE no_path_store
            next == next_node(store, SampleAdjacent(grid, ss.previous))
        IN  IF next = None THEN ss.current = ss.previous
            ELSE IF ~BitGetValue(grid.ground_truth, Unwrap(next))
                 THEN ss.current = ss.previous
                 ELSE ss.current = Unwrap(next)

\* the active store chose a neighbour that is an obstacle
C6_Witness ==
    /\ AfterStep
    /\ LET store == IF valid_paths > 0 THEN path_store ELSE no_path_store
           next == next_node(store, SampleAdjacent(grid, ss.previous))
       IN  next # None /\ ~BitGetValue(grid.ground_truth, Unwrap(next))

\* C7: at the join of a step valid_paths is the number of the step's
\* rollouts whose path ends at goal, under every interleaving.
C7_ValidPathsCount ==
    AtJoin => valid_paths = Cardinality({ i \in Rollouts : rollouts[i].found_path })

\* one rollout found the goal and another did not
C7_Witness ==
    /\ AtJoin
    /\ valid_paths = 1
    /\ \E i \in Rollouts : ~rollouts[i].found_path

\* C8: within one step the fallback store and the statistics are reset by
\* a successful rollout at most once, under every interleaving.
C8_ResetOnce == hist.fallback_resets <= 1 /\ hist.stats_resets <= 1

\* C9: at the join, valid_paths > 0 implies that the fallback store is
\* empty: no failed rollout added its path once a rollout had succeeded.
C9_FallbackEmpty == (AtJoin /\ valid_paths > 0) => DOMAIN no_path_store = {}

\* C10: after a step that did not return done the bucket of every cell of
\* the primary store is the number of occurrences of the cell over the
\* paths of this step's rollouts that reached the goal, and the fallback
\* store holds nothing but occurrences over this step's failed paths.
C10_StoresOfThisStep ==
    AfterStep =>
        LET found == { i \in Rollouts : rollouts[i].found_path }
        IN  /\ \A n \in Cells(grid) :
                  OccurrencesOver(found, n) =
                      (IF n \in DOMAIN path_store THEN path_store[n] ELSE 0)
            /\ DOMAIN path_store \subseteq Cells(grid)
            /\ \A n \in DOMAIN no_path_store :
                  no_path_store[n] <= OccurrencesOver(Rollouts \ found, n)

\* the second step has returned; its rollouts found the goal, on paths
\* that do not hold the cell the first step started from
C10_Witness ==
    /\ AfterStep
    /\ main.steps = 2
    /\ valid_paths = Epoch
    /\ hist.start \notin DOMAIN path_store
    /\ ss.goal \in DOMAIN path_store

(***************************************************************************)
(* Specification SpecStore: a counting AccStore that paths are added to    *)
(* and that is asked for the next node                                     *)
(***************************************************************************)

\* the variables the harness specifications leave idle
HarnessIdle ==
    /\ grid = GridIdle
    /\ rc = RcIdle
    /\ sr = SrIdle
    /\ sm = SmIdle
    /\ StarIdle

\* the number of add_path calls
MaxAdds == 3

StoreCells == {<<1, 0>>, <<0, 1>>, <<1, 1>>}

\* the sequences of distinct cells of S of length lo..hi
DistinctSeqs(S, lo, hi) ==
    UNION { { q \in [1..k -> S] : \A i, j \in 1..k : q[i] = q[j] => i = j } : k \in lo..hi }

InitStore ==
    /\ fn = [call |-> "new", store |-> AccStoreNew, adds |-> 0, nodes |-> <<>>, result |-> None]
    /\ HarnessIdle

\* store.add_path(path, weight)
StoreAddPath(path) ==
    /\ fn.adds < MaxAdds
    /\ fn' = [fn EXCEPT !.call = "add_path", !.store = add_path(fn.store, path),
                        !.adds = fn.adds + 1]
    /\ UNCHANGED <<grid, rc, sr, sm, starVars>>

\* store.reinitialize()
StoreReinitialize ==
    /\ fn.adds > 0
    /\ fn' = [fn EXCEPT !.call = "reinitialize", !.store = reinitialize(fn.store)]
    /\ UNCHANGED <<grid, rc, sr, sm, starVars>>

\* store.next_node(nodes)
StoreNextNode(nodes) ==
    /\ fn' = [fn EXCEPT !.call = "next_node", !.nodes = nodes,
                        !.result = next_node(fn.store, nodes)]
    /\ UNCHANGED <<grid, rc, sr, sm, starVars>>

NextStore ==
    \/ \E path \in DistinctSeqs(StoreCells, 1, 2) : StoreAddPath(path)
    \/ StoreReinitialize
    \/ \E nodes \in DistinctSeqs(StoreCells, 0, 3) : StoreNextNode(nodes)

SpecStore == InitStore /\ [][NextStore]_vars

\* the candidates of the last next_node call that are present in the store
PresentCandidates == { n \in SeqToSet(fn.nodes) : n \in DOMAIN fn.store }

\* C11: next_node(candidates) returns a candidate present in the store
\* whose bucket is at least the bucket of every other present candidate,
\* and None if and only if no candidate is present.
C11_NextNodeMax ==
    fn.call = "next_node" =>
        IF fn.result = None THEN PresentCandidates = {}
        ELSE /\ Unwrap(fn.result) \in PresentCandidates
             /\ \A n \in PresentCandidates : fn.store[n] <= fn.store[Unwrap(fn.result)]

\* three candidates are present, two share the largest bucket and the
\* first has a smaller one
C11_Witness ==
    /\ fn.call = "next_node"
    /\ Len(fn.nodes) = 3
    /\ Cardinality(PresentCandidates) = 3
    /\ fn.store[fn.nodes[1]] < fn.store[fn.nodes[2]]
    /\ fn.store[fn.nodes[2]] = fn.store[fn.nodes[3]]
    /\ fn.result # None

RECURSIVE MergedStore(_, _)
\* the paths of the rollouts in todo added to store one after the other,
\* in the order of the rollout numbers
MergedStore(store, todo) ==
    IF todo = {} THEN store
    ELSE LET i == CHOOSE j \in todo : \A k \in todo : j <= k
         IN  MergedStore(add_path(store, rollouts[i].path), todo \ {i})

\* the cell a step commits when the results of its rollouts are merged in
\* the order of the rollout numbers: the found paths if there is one, the
\* other paths if there is none
SequentialCommit ==
    LET found == { i \in Rollouts : rollouts[i].found_path }
        store == MergedStore(AccStoreNew, IF found # {} THEN found ELSE Rollouts)
        next == next_node(store, SampleAdjacent(grid, ss.previous))
    IN  bump(grid, IF next = None THEN ss.previous ELSE Unwrap(next), ss.previous)

\* C12: for given results of the rollouts of a step (the path of each and
\* whether it reached the goal) the committed cell is the one a merge in a
\* fixed order gives, under every interleaving and completion order.
C12_CommitDeterministic == AfterStep => ss.current = SequentialCommit

\* a step has moved the agent and two of its rollouts returned different
\* paths, one to the goal and one not
C12_Witness ==
    /\ AfterStep
    /\ ss.current # ss.previous
    /\ \E i, j \in Rollouts :
          /\ rollouts[i].path # rollouts[j].path
          /\ rollouts[i].found_path
          /\ ~rollouts[j].found_path

\* ---------------------------------------------------------------------
\* step with the acquisition of a mutex as a step of its own: a rollout
\* that has locked a mutex keeps every other rollout out of the statements
\* under that mutex until its guard is dropped

\* rollout i locks the mutex of its next statement (Mutex::lock, lines 108,
\* 111, 112, 115, 118, 124, 126); it waits while another rollout holds it
Acquire(i) ==
    /\ main.pc = "fanout"
    /\ MutexOf(rollouts[i]) # None
    /\ locks[Unwrap(MutexOf(rollouts[i]))] = 0
    /\ locks' = [locks EXCEPT ![Unwrap(MutexOf(rollouts[i]))] = i]
    /\ UNCHANGED <<grid, rc, sr, sm, fn, ss, path_store, no_path_store, stats, valid_paths,
                   main, rollouts, hist>>

\* the statements of rollout i
Rollout(i) ==
    \/ Acquire(i)
    \/ RolloutSearch(i)
    \/ ResetNoPathStore(i)
    \/ ResetStats(i)
    \/ IncrementValidPaths(i)
    \/ UpdateStats(i)
    \/ AddPath(i)

\* calls of step in a run with the acquisitions as steps
JoinSteps == 1

\* the corridor with the goal one cell and two cells from the start
JoinProblems ==
    { [grid |-> g, start |-> <<0, 0>>, goal |-> <<x, 0>>] :
         g \in StarPriors(MapCorridor), x \in {1, 2} }

InitJoin == SampleStarNew(JoinProblems, JoinSteps)

NextJoin ==
    \/ StepDone
    \/ StepBegin
    \/ \E i \in Rollouts : Rollout(i)
    \/ StepPanic
    \/ StepJoin

\* the worker threads of the pool and the thread of step are scheduled by
\* the operating system: a thread that can run does run
SpecJoin ==
    /\ InitJoin
    /\ [][NextJoin]_vars
    /\ \A i \in Rollouts : WF_vars(Rollout(i))
    /\ WF_vars(StepPanic \/ StepJoin)

\* C13: under fair scheduling every fan-out of step is joined (the parallel
\* iterator returns or, when a search panicked, unwinds), every rollout
\* reaches the end of its closure, whatever rollout holds whatever mutex,
\* and step chooses and commits the next cell (final_path grows) only when
\* every rollout has made its updates of the stores and of the statistics
C13_JoinCompletes ==
    /\ (main.pc = "fanout") ~> (main.pc # "fanout")
    /\ \A i \in Rollouts :
          (main.pc = "fanout") ~> (rollouts[i].pc \in {"done", "panicked"})
    /\ [][ss'.final_path # ss.final_path =>
             \A i \in Rollouts : rollouts[i].pc = "done"]_vars

\* C13 witness: a rollout holds a mutex that the next statement of another
\* rollout needs
C13_Witness ==
    /\ main.pc = "fanout"
    /\ \E i, j \in Rollouts :
          /\ i # j
          /\ MutexOf(rollouts[j]) # None
          /\ locks[Unwrap(MutexOf(rollouts[j]))] = i

\* ---------------------------------------------------------------------
\* Sample-Star on an open map whose belief is the map

\* calls of step that launch rollouts
SmokeSteps == 4

\* an open 3x2 map
MapOpen32 == << <<".", ".", ".">>, <<".", ".", ".">> >>

\* a corridor with an obstacle between start and goal
MapBlocked == << <<".", "@", ".">> >>

\* the open map from corner to corner and the blocked corridor, the
\* belief as read from the string

SmokeProblems ==
    { [grid |-> new_from_string(MapOpen32), start |-> <<0, 0>>, goal |-> <<2, 1>>],
      [grid |-> new_from_string(MapBlocked), start |-> <<0, 0>>, goal |-> <<2, 0>>] }

InitSmoke == SampleStarNew(SmokeProblems, SmokeSteps)

SpecSmoke == InitSmoke /\ [][Next]_vars

\* the map has no obstacle
OpenMap == \A c \in Cells(grid) : BitGetValue(grid.ground_truth, c)

C15_GridFrame ==
    [][/\ main.pc = "fanout" => grid' = grid
       /\ grid'.ground_truth = grid.ground_truth]_vars

\* C15 witness: on a map with an obstacle a second step has updated the
\* belief and its rollouts, which have sampled cells, are at the join
C15_Witness ==
    /\ AtJoin
    /\ main.steps >= 1
    /\ \E c \in Cells(grid) : ~BitGetValue(grid.ground_truth, c)
    /\ \E i \in Rollouts : rollouts[i].exp > 0

(***************************************************************************)
(* Specification SpecLine: bresenham on the cells of a box                 *)
(***************************************************************************)

\* the coordinates of the endpoints are in -LineMax..LineMax
LineMax == 2

Box == (-LineMax..LineMax) \X (-LineMax..LineMax)

\* visibility checks: always true, false on one cell, never true
VisibleSets == {Box} \cup { Box \ {c} : c \in Box } \cup {{}}

\* bounds checks: always true, a grid with the corner at the origin, a grid
\* of one cell
BoundsSets == {Box, (0..LineMax) \X (0..LineMax), {<<0, 0>>}}

InitLine ==
    /\ HarnessIdle
    /\ \E a \in Box, b \in Box, visible \in VisibleSets, inbounds \in BoundsSets :
         fn = [call |-> "new", a |-> a, b |-> b, visible |-> visible, inbounds |-> inbounds,
               line |-> <<>>]

Bresenham ==
    /\ fn.call = "new"
    /\ fn' = [fn EXCEPT !.call = "bresenham",
                        !.line = bresenham(fn.a, fn.b, fn.visible, fn.inbounds)]
    /\ UNCHANGED <<grid, rc, sr, sm, starVars>>

NextLine == Bresenham

SpecLine == InitLine /\ [][NextLine]_vars

\* C16: with both checks always true the line from a to b begins with a,
\* ends with b, has max(|bx - ax|, |by - ay|) + 1 cells, and consecutive
\* cells differ by at most 1 in each axis
C16_FullLine ==
    (fn.call = "bresenham" /\ fn.visible = Box /\ fn.inbounds = Box) =>
       /\ Len(fn.line) = Max(Abs(fn.b[1] - fn.a[1]), Abs(fn.b[2] - fn.a[2])) + 1
       /\ fn.line[1] = fn.a
       /\ fn.line[Len(fn.line)] = fn.b
       /\ \A k \in 1..(Len(fn.line) - 1) :
             /\ Abs(fn.line[k + 1][1] - fn.line[k][1]) <= 1
             /\ Abs(fn.line[k + 1][2] - fn.line[k][2]) <= 1

\* C16 witness: a steep line drawn upwards and to the left
C16_Witness ==
    /\ fn.call = "bresenham" /\ fn.visible = Box /\ fn.inbounds = Box
    /\ fn.b[1] < fn.a[1]
    /\ fn.b[2] < fn.a[2] - (fn.a[1] - fn.b[1])
    /\ Len(fn.line) = fn.a[2] - fn.b[2] + 1

\* the line from a to b with both checks always true
FullLine == bresenham(fn.a, fn.b, Box, Box)

\* C17: the result is a prefix of the full line, every cell of it is in
\* bounds, every cell but the last is visible, and it is the longest one:
\* it is the full line, or the next cell is out of bounds, or its last cell
\* is not visible; it is empty only if a is out of bounds
C17_LongestPrefix ==
    fn.call = "bresenham" =>
       LET n == Len(fn.line)
       IN  /\ n <= Len(FullLine)
           /\ fn.line = SubSeq(FullLine, 1, n)
           /\ \A k \in 1..n : fn.line[k] \in fn.inbounds
           /\ \A k \in 1..(n - 1) : fn.line[k] \in fn.visible
           /\ \/ n = Len(FullLine)
              \/ FullLine[n + 1] \notin fn.inbounds
              \/ n >= 1 /\ fn.line[n] \notin fn.visible
           /\ n = 0 => fn.a \notin fn.inbounds

\* C17 witness: the line stops on a cell that is not visible, short of b,
\* with the next cell of the full line in bounds
C17_Witness ==
    /\ fn.call = "bresenham"
    /\ Len(fn.line) >= 2
    /\ Len(fn.line) < Len(FullLine)
    /\ fn.line[Len(fn.line)] \notin fn.visible
    /\ FullLine[Len(fn.line) + 1] \in fn.inbounds

(***************************************************************************)
(* Specification SpecFov: GridVisibility2d::visibility on a SampleGrid2d   *)
(***************************************************************************)

\* the radius of the kernel is in 0..MaxRadius
MaxRadius == 2

\* the grids: maps as read from their strings, and with every belief at
\* 0.5, so that no cell is passable
FovGrids ==
    LET read == { new_from_string(lines) :
                  lines \in {MapOpen3, MapWalled3, MapSample, MapCorridor, MapBlocked} }
    IN  read \cup { WithStates(g, Milli \div 2) : g \in read }

InitFov ==
    /\ rc = RcIdle /\ sr = SrIdle /\ sm = SmIdle /\ StarIdle
    /\ grid \in FovGrids
    /\ \E n \in Cells(grid), radius \in 0..MaxRadius :
         fn = [call |-> "new", n |-> n, radius |-> radius, matrix |-> None]

Visibility ==
    /\ fn.call = "new"
    /\ fn' = [fn EXCEPT !.call = "visibility",
                        !.matrix = Some(visibility(grid, fn.n, fn.radius))]
    /\ UNCHANGED <<grid, rc, sr, sm, starVars>>

NextFov == Visibility

SpecFov == InitFov /\ [][NextFov]_vars

\* C18: visibility((x, y), (s - 1) / 2) at an in-bounds centre has s * s
\* entries and its centre entry is true, whatever cells are passable and
\* wherever the square leaves the grid
C18_CentreVisible ==
    fn.call = "visibility" =>
       LET m == Unwrap(fn.matrix)
           side == 2 * fn.radius + 1
       IN  /\ m.width = side /\ m.height = side
           /\ Len(m.data) = side * side
           /\ MatrixAt(m, fn.radius, fn.radius)

(***************************************************************************)
(* Specification SpecBits: set_value and invert on a BitPackedGrid2d       *)
(***************************************************************************)

\* the number of set_value and invert calls
MaxBitCalls == 3

\* widths below, at and above the word size less the padding; heights
BitWidths == {1, 2, BITS_PER_WORD - 2, BITS_PER_WORD - 1, BITS_PER_WORD}

BitHeights == {1, 2}

\* the in-bounds coordinates of g
BitCells(g) == (0..(g.width - 1)) \X (0..(g.height - 1))

\* the coordinates given to set_value: the corners of the grid
BitCorners(g) == {0, g.width - 1} \X {0, g.height - 1}

\* the number of bits of the backing store
BackingBits(g) == g.map_size * BITS_PER_WORD

InitBits ==
    /\ HarnessIdle
    /\ \E w \in BitWidths, h \in BitHeights :
         fn = [call |-> "new", g |-> BitPackedGrid2dNew(w, h), calls |-> 0,
               n |-> None, value |-> FALSE, was |-> FALSE, ones |-> 0]

\* g.set_value(n, value); was and ones are get_value(n) and count_ones()
\* before the call
BitsSetValue(n, value) ==
    /\ fn.calls < MaxBitCalls
    /\ fn' = [fn EXCEPT !.call = "set_value", !.g = BitSetValue(fn.g, n, value),
                        !.calls = fn.calls + 1, !.n = Some(n), !.value = value,
                        !.was = BitGetValue(fn.g, n), !.ones = count_ones(fn.g)]
    /\ UNCHANGED <<grid, rc, sr, sm, starVars>>

\* g.invert()
BitsInvert ==
    /\ fn.calls < MaxBitCalls
    /\ fn' = [fn EXCEPT !.call = "invert", !.g = invert(fn.g), !.calls = fn.calls + 1,
                        !.n = None, !.ones = count_ones(fn.g)]
    /\ UNCHANGED <<grid, rc, sr, sm, starVars>>

NextBits ==
    \/ \E n \in BitCorners(fn.g), value \in BOOLEAN : BitsSetValue(n, value)
    \/ BitsInvert

SpecBits == InitBits /\ [][NextBits]_vars

\* C19: count_ones is the number of in-bounds cells whose value is true,
\* and set_value changes it by +1 on a false cell set true, by -1 on a
\* true cell set false, and by 0 otherwise
C19_CountOnes ==
    /\ count_ones(fn.g) = Cardinality({ c \in BitCells(fn.g) : BitGetValue(fn.g, c) })
    /\ fn.call = "set_value" =>
          count_ones(fn.g) = fn.ones + (IF fn.value /\ ~fn.was THEN 1
                                        ELSE IF ~fn.value /\ fn.was THEN -1 ELSE 0)

\* C19 witness: a true cell was set false while another cell is true
C19_Witness ==
    /\ fn.call = "set_value"
    /\ ~fn.value /\ fn.was
    /\ fn.ones >= 2
    /\ count_ones(fn.g) = fn.ones - 1

\* the out-of-bounds neighbours of the in-bounds cells of g, the
\* coordinate -1 standing for usize::MAX
OutsideNeighbours(g) ==
    { nb \in UNION { SeqToSet(neighbors(c)) : c \in {0, 1, g.width - 2, g.width - 1}
                                                   \X (0..(g.height - 1)) }
             \cup UNION { SeqToSet(neighbors(c)) : c \in (0..(g.width - 1))
                                                   \X {0, g.height - 1} } :
        ~bounds_check(<<g.width, g.height>>, nb) }

\* C20: distinct in-bounds coordinates have distinct bit indices inside
\* the backing store, every bit that is set is the bit of an in-bounds
\* cell, and the bit get_value reads for an out-of-bounds neighbour of an
\* in-bounds cell is inside the backing store and false
C20_PaddingFalse ==
    /\ Cardinality({ get_map_id(fn.g, c) : c \in BitCells(fn.g) }) = fn.g.width * fn.g.height
    /\ \A c \in BitCells(fn.g) :
          get_map_id(fn.g, c) >= 0 /\ get_map_id(fn.g, c) < BackingBits(fn.g)
    /\ fn.g.map_cells \subseteq { get_map_id(fn.g, c) : c \in BitCells(fn.g) }
    /\ \A nb \in OutsideNeighbours(fn.g) :
          /\ get_map_id(fn.g, nb) >= 0
          /\ get_map_id(fn.g, nb) < BackingBits(fn.g)
          /\ ~BitGetValue(fn.g, nb)

\* C20 witness: on a grid whose last column lies in the next padded row
\* every in-bounds cell is true after an invert
C20_Witness ==
    /\ fn.call = "invert"
    /\ fn.g.width = BITS_PER_WORD - 1
    /\ fn.g.height = 2
    /\ \A c \in BitCells(fn.g) : BitGetValue(fn.g, c)

\* C21: new((W, H)) gives the padded width ceil((W + 2) / word_bits) *
\* word_bits, the padded height H + 4, and a backing store of padded width
\* * padded height / word_bits words
C21_PaddedShape ==
    LET g == fn.g
        Wp == ((g.width + PADDING + BITS_PER_WORD - 1) \div BITS_PER_WORD) * BITS_PER_WORD
        Hp == g.height + 2 * PADDING
    IN  /\ g.map_width = Wp
        /\ g.map_height = Hp
        /\ g.map_size = (Wp * Hp) \div BITS_PER_WORD

(***************************************************************************)
(* Specification SpecKalman: updates of one KalmanNode                     *)
(***************************************************************************)

\* the number of update calls
MaxUpdates == 2

\* states, covariances, measurements and measurement covariances, in
\* units of 1 / Milli
KalmanStates == {0, Milli \div 4, Milli \div 2, Milli}

KalmanCovariances == {0, Milli \div 2, Milli}

InitKalman ==
    /\ HarnessIdle
    /\ \E state \in KalmanStates, covariance \in KalmanCovariances :
         fn = [call |-> "new", node |-> [state |-> state, covariance |-> covariance],
               prior |-> None, measurement |-> 0, measurement_covariance |-> 0,
               updates |-> 0, pinned |-> None]

\* node.update(measurement, measurement_covariance); pinned is the
\* measurement of the latest update with measurement covariance 0
Update(measurement, measurement_covariance) ==
    /\ fn.updates < MaxUpdates
    /\ fn' = [fn EXCEPT !.call = "update",
                        !.node = KalmanUpdate(fn.node, measurement, measurement_covariance),
                        !.prior = Some(fn.node),
                        !.measurement = measurement,
                        !.measurement_covariance = measurement_covariance,
                        !.updates = fn.updates + 1,
                        !.pinned = IF measurement_covariance = 0 THEN Some(measurement)
                                   ELSE fn.pinned]
    /\ UNCHANGED <<grid, rc, sr, sm, starVars>>

NextKalman ==
    \E measurement \in KalmanStates, measurement_covariance \in KalmanCovariances :
       Update(measurement, measurement_covariance)

SpecKalman == InitKalman /\ [][NextKalman]_vars

\* C22: once an update with measurement covariance 0 has been made, the
\* state is the measurement of that update and the covariance is 0,
\* whatever the node was before and whatever updates with a positive
\* measurement covariance follow
C22_ZeroCovariancePins ==
    fn.pinned # None =>
       /\ fn.node.state = Unwrap(fn.pinned)
       /\ fn.node.covariance = 0

(***************************************************************************)
(* Specification SpecText: new_from_string and print_cells on map text     *)
(***************************************************************************)

\* the length of the map text
MaxText == 5

\* text is a sequence of characters
TextChars == {".", "@", "T", " ", "\n"}

is_whitespace(c) == c \in {" ", "\n"}

RECURSIVE trim_start(_)
trim_start(t) ==
    IF t # <<>> /\ is_whitespace(t[1]) THEN trim_start(Tail(t)) ELSE t

RECURSIVE trim_end(_)
trim_end(t) ==
    IF t # <<>> /\ is_whitespace(t[Len(t)]) THEN trim_end(SubSeq(t, 1, Len(t) - 1)) ELSE t

\* str::trim
trim(t) == trim_end(trim_start(t))

\* str::find: the first index at which a character of cs occurs, 0 for None
find(t, cs) ==
    IF \E k \in DOMAIN t : t[k] \in cs
    THEN CHOOSE k \in DOMAIN t : t[k] \in cs /\ \A j \in 1..(k - 1) : t[j] \notin cs
    ELSE 0

RECURSIVE lines(_)
\* str::lines: the text between newlines, no line for a final newline
lines(t) ==
    IF t = <<>> THEN <<>>
    ELSE LET k == find(t, {"\n"})
         IN  IF k = 0 THEN <<t>>
             ELSE <<SubSeq(t, 1, k - 1)>> \o lines(SubSeq(t, k + 1, Len(t)))

\* new_from_string, lines 73-78: the content lines of the text
content_lines(text) ==
    LET t == trim(text)
        start == find(t, {".", "@", "T"})
    IN  IF start = 0 THEN <<>> ELSE lines(SubSeq(t, start, Len(t)))

\* SampleGrid2d::new_from_string(text): unwrap() panics when there is no
\* line, and set_value panics on sample_grid[x] when a later line has a
\* '.' beyond the width of the first
new_from_text(text) ==
    LET ls == content_lines(text)
    IN  IF ls = <<>> THEN Panic
        ELSE IF \E i \in DOMAIN ls : \E j \in DOMAIN ls[i] : j > Len(ls[1]) /\ ls[i][j] = "."
        THEN Panic
        ELSE [panicked |-> FALSE, grid |-> new_from_string(ls)]

RECURSIVE print_row(_, _, _, _)
\* the inner loop of print_cells_with_dims over x, and the newline
print_row(passable, width, x, y) ==
    IF x >= width THEN <<"\n">>
    ELSE <<IF <<x, y>> \in passable THEN "." ELSE "@">> \o print_row(passable, width, x + 1, y)

\* mutant of print_cells: no newline after the last row
print_cellsUnterminated(passable, width, height) ==
    LET F[y \in 0..height] ==
           IF y = height THEN <<>> ELSE print_row(passable, width, 0, y) \o F[y + 1]
        whole == F[0]
    IN  IF whole = <<>> THEN whole ELSE SubSeq(whole, 1, Len(whole) - 1)

\* print_cells(None) of a grid of the given shape whose get_value is true
\* on passable
print_cells(passable, width, height) ==
    LET F[y \in 0..height] ==
           IF y = height THEN <<>> ELSE print_row(passable, width, 0, y) \o F[y + 1]
    IN  F[0]

InitText ==
    /\ HarnessIdle
    /\ \E n \in 0..MaxText : \E text \in [1..n -> TextChars] :
         fn = [call |-> "new", text |-> text, panicked |-> FALSE,
               belief |-> <<>>, truth |-> <<>>]

\* let grid = SampleGrid2d::new_from_string(text); grid.print_cells(None);
\* grid.ground_truth.print_cells(None)
RoundTrip ==
    /\ fn.call = "new"
    /\ LET r == new_from_text(fn.text)
       IN  fn' = IF r.panicked THEN [fn EXCEPT !.call = "print_cells", !.panicked = TRUE]
                 ELSE [fn EXCEPT
                         !.call = "print_cells",
                         !.belief = print_cells({ c \in Cells(r.grid) : SampleGetValue(r.grid, c) },
                                                r.grid.width, r.grid.height),
                         !.truth = print_cells({ c \in Cells(r.grid) :
                                                   BitGetValue(r.grid.ground_truth, c) },
                                               r.grid.width, r.grid.height)]
    /\ UNCHANGED <<grid, rc, sr, sm, starVars>>

NextText == RoundTrip

SpecText == InitText /\ [][NextText]_vars

\* C23 as stated: for any map text, the belief grid and its ground truth
\* print as the text without its leading whitespace
C23_RoundTripAnyText ==
    fn.call = "print_cells" =>
       /\ ~fn.panicked
       /\ fn.belief = trim_start(fn.text)
       /\ fn.truth = trim_start(fn.text)

\* the text, after its leading whitespace, is rows of '.' and '@' of one
\* length, each ended by a newline
WellFormed(text) ==
    LET t == trim_start(text)
        ls == lines(t)
    IN  /\ t # <<>>
        /\ t[Len(t)] = "\n"
        /\ \A k \in DOMAIN t : t[k] \in {".", "@", "\n"}
        /\ \A i \in DOMAIN ls : Len(ls[i]) = Len(ls[1]) /\ Len(ls[i]) > 0

\* C23 amended: for map text that, after its leading whitespace, is rows of
\* '.' and '@' of one length, each ended by a newline, new_from_string
\* returns and the belief grid and its ground truth print as the text
\* without its leading whitespace
C23_RoundTrip ==
    (fn.call = "print_cells" /\ WellFormed(fn.text)) =>
       /\ ~fn.panicked
       /\ fn.belief = trim_start(fn.text)
       /\ fn.truth = trim_start(fn.text)

\* C23 witness: two rows with a free and a blocked cell after leading
\* whitespace
C23_Witness ==
    /\ fn.call = "print_cells"
    /\ WellFormed(fn.text)
    /\ fn.text[1] = " "
    /\ Len(lines(trim_start(fn.text))) = 2
    /\ "." \in SeqToSet(fn.text) /\ "@" \in SeqToSet(fn.text)
    /\ fn.belief = trim_start(fn.text)

(***************************************************************************)
(* Specification SpecEpoch: Sample-Star with epoch from 0 to Epoch         *)
(***************************************************************************)

InitEpoch == SampleStarWith(JoinProblems, MaxSteps, 0..Epoch)

SpecEpoch == InitEpoch /\ [][Next]_vars

\* no in-bounds 4-neighbour of current is in the store step chooses from
NoNeighbourStored ==
    \A n \in SeqToSet(SampleAdjacent(grid, ss.current)) :
       n \notin DOMAIN (IF valid_paths > 0 THEN path_store ELSE no_path_store)

\* C24: a join at which no in-bounds 4-neighbour of current is in the
\* active store (next_node returns None) leaves current as it is, appends
\* it to final_path and returns not done
C24_NoneKeepsCurrent ==
    [][(main.pc = "fanout" /\ main'.pc = "idle" /\ NoNeighbourStored) =>
          /\ ss'.current = ss.current
          /\ ss'.final_path = Append(ss.final_path, ss.current)
          /\ main'.ret = Some(FALSE)]_vars

\* C24 witness: a step with no rollout has returned with both stores empty
C24_Witness ==
    /\ AfterStep
    /\ ss.epoch = 0
    /\ path_store = AccStoreNew /\ no_path_store = AccStoreNew
    /\ Len(ss.final_path) = main.steps + 1
    /\ main.steps >= 1
    /\ ss.current = ss.previous

(***************************************************************************)
(* Specification SpecFocal: the while loop of one FocalSearch::_search on  *)
(* a finite weighted graph, one iteration a step                           *)
(***************************************************************************)

\* no edge leads back to the start
FocalPairs == { p \in EdgePairs : p[2] # SearchStart }

\* the cost of the edge p, None when there is none
FocalEdge(w, p) == IF p \in FocalPairs THEN w[p] ELSE None

InitFocal ==
    /\ \E w \in [FocalPairs -> EdgeChoices], h \in [SearchNodes -> 0..MaxCost],
          slack \in 0..MaxSlack, byH \in BOOLEAN, goals \in {{}, {2}} :
         LET fs == FocalSearchNew(h, IF byH THEN h ELSE ZeroHeuristic, slack)
         IN  fn = [call |-> "focal", fs |-> fs, goals |-> goals,
                   edges |-> EdgesOf([p \in EdgePairs |-> FocalEdge(w, p)]),
                   st |-> FocalStart(fs, SearchStart)]
    /\ HarnessIdle

\* one iteration of the while loop: focal.pop() returned an entry
FocalIterate ==
    /\ fn.call = "focal"
    /\ ~fn.st.done
    /\ \E e \in FocalPopCandidates(fn.st.focal) :
         fn' = [fn EXCEPT !.st = FocalIteration(fn.fs, fn.edges, fn.goals, fn.st, e)]
    /\ UNCHANGED <<grid, rc, sr, sm, starVars>>

\* focal.pop() returned None: the loop ends and _search returns
FocalReturn ==
    /\ fn.call = "focal"
    /\ ~fn.st.done
    /\ BagToSet(fn.st.focal) = {}
    /\ fn' = [fn EXCEPT !.st = FocalExhausted(fn.st)]
    /\ UNCHANGED <<grid, rc, sr, sm, starVars>>

NextFocal == FocalIterate \/ FocalReturn

SpecFocal == InitFocal /\ [][NextFocal]_vars

\* C25: FocalSearch expands a node popped from the focal list only if that
\* node is still in the open list at the popped f-value; a focal entry whose
\* node has already been removed from open is skipped.
C25_ExpandsOnlyOpen ==
    [][fn'.st.expanded =>
         <<Unwrap(fn'.st.popped).node, Unwrap(fn'.st.popped).cost[2]>> \in fn.st.open]_vars

\* C26: every node pushed onto the focal list, on relaxation or on
\* promotion, has f = g + h <= focal_calc(f_min), f_min the least f in open
\* (as the iteration read it, or as it is at the push).
C26_FocalWithinBound ==
    \A p \in fn.st.pushed :
       \/ p.f <= focal_calc(fn.fs, p.f_min)
       \/ p.f <= focal_calc(fn.fs, p.open_min)


\* the cells of the list the latest sample_adjacenct call returned
LastIncluded(m) == { c[1] : c \in SeqToSet(m.log[Len(m.log)].children) }

\* C27: on the first touch of an in-bounds neighbour n within a rollout,
\* sample_adjacenct marks n as realized and includes it iff its belief state
\* is not 0 and the draw u is below the state; a state-0 neighbour is never
\* included, a state-1 neighbour always, and an out-of-bounds neighbour is
\* never included nor marked.
C27_FirstTouch ==
    [][sm'.calls = sm.calls + 1 =>
         \A n \in SeqToSet(neighbors(sm'.log[Len(sm'.log)].cell)) :
            IF bounds_check(shape(grid), n)
            THEN ~BitGetValue(sm.sampled_before, n) =>
                   /\ BitGetValue(sm'.sampled_before, n)
                   /\ \E d \in SeqToSet(sm'.last) :
                        /\ d.cell = n
                        /\ n \in LastIncluded(sm') <=>
                             (NodeAt(grid, n).state # 0 /\ d.u < NodeAt(grid, n).state)
                   /\ NodeAt(grid, n).state = 0 => n \notin LastIncluded(sm')
                   /\ NodeAt(grid, n).state = Milli => n \in LastIncluded(sm')
            ELSE /\ n \notin LastIncluded(sm')
                 /\ ~BitGetValue(sm'.sampled_before, n)]_vars

\* a call at a corner touched two neighbours of state strictly between 0 and
\* 1 for the first time, included one and left the other out
C27_Witness ==
    /\ sm.calls >= 1
    /\ Len(sm.last) = 2
    /\ Len(SampleAdjacent(grid, sm.log[Len(sm.log)].cell)) = 2
    /\ \A k \in 1..2 : NodeAt(grid, sm.last[k].cell).state \notin {0, Milli}
    /\ sm.last[1].cell \in LastIncluded(sm)
    /\ sm.last[2].cell \notin LastIncluded(sm)


\* the cell c lies in the window of the kernel around n and its entry of the
\* visibility matrix of g is true
SeenFrom(g, n, kernel, c) ==
    LET radius == kernel.width \div 2
        i == c[1] - n[1] + radius
        j == c[2] - n[2] + radius
    IN  /\ i \in 0..(2 * radius)
        /\ j \in 0..(2 * radius)
        /\ MatrixAt(visibility(g, n, radius), j, i)

\* C28: raycast_update((x,y), kernel) changes the belief node only of
\* in-bounds cells inside the (2r+1)x(2r+1) window around (x,y) whose entry
\* of the visibility matrix is true; the state and covariance of every other
\* cell are left unchanged.
C28_RaycastFrame ==
    [][rc'.count = rc.count + 1 =>
         /\ DOMAIN grid'.sample_grid.data = DOMAIN grid.sample_grid.data
         /\ \A c \in Cells(grid) :
              NodeAt(grid', c) # NodeAt(grid, c) => SeenFrom(grid, rc'.centre, rc'.kernel, c)]_vars

\* after one call a cell of the window still has its prior node, which
\* differs from its ground truth, while a cell other than the centre changed
C28_Witness ==
    /\ rc.count = 1
    /\ \E c, d \in Cells(grid) :
         /\ Abs(c[1] - rc.centre[1]) <= rc.kernel.width \div 2
         /\ Abs(c[2] - rc.centre[2]) <= rc.kernel.width \div 2
         /\ NodeAt(grid, c).covariance = DEFAULT_COVARIANCE
         /\ NodeAt(grid, c).state # Truth(grid, c)
         /\ d # rc.centre
         /\ NodeAt(grid, d).covariance # DEFAULT_COVARIANCE


\* the cell n is free in the ground truth
Passable(n) == BitGetValue(grid.ground_truth, n)

\* C29: if start is passable in ground_truth then, after any sequence of
\* steps, every cell of final_path, and current, is passable in ground_truth.
C29_NeverOnObstacle ==
    Passable(hist.start) =>
        /\ \A k \in DOMAIN ss.final_path : Passable(ss.final_path[k])
        /\ Passable(ss.current)

\* a step chose an obstacle of the ground truth and the agent stayed on the
\* passable start
C29_Witness ==
    /\ AfterStep
    /\ Passable(hist.start)
    /\ ss.final_path = <<hist.start, hist.start>>
    /\ LET store == IF valid_paths > 0 THEN path_store ELSE no_path_store
           next == next_node(store, SampleAdjacent(grid, ss.previous))
       IN  next # None /\ ~Passable(Unwrap(next))


\* a call of search or best_search returned a path
ReturnedPath ==
    IF sr.call \in {"search", "focal_search"} THEN sr.result # None
    ELSE sr.call \in {"best_search", "focal_best_search"} /\ ~sr.result.panicked

ThePath ==
    IF sr.call \in {"search", "focal_search"} THEN Unwrap(sr.result).path ELSE sr.result.path

\* the expander returned c for p
IsEdge(p, c) == p # c /\ sr.w[<<p, c>>] # None

\* C30: every path returned by search or best_search, of A* or Focal, starts
\* with the start node, repeats no node, and each consecutive pair (p, c) is
\* an edge the expander returned for p; when the goal is not reached the
\* path ends at a node other than the start that minimizes the best
\* heuristic among the nodes with a parent.
C30_ReturnedPaths ==
    ReturnedPath =>
        LET path == ThePath
            end == path[Len(path)]
        IN  /\ path[1] = sr.start
            /\ \A i, j \in DOMAIN path : path[i] = path[j] => i = j
            /\ \A k \in 1..(Len(path) - 1) : IsEdge(path[k], path[k + 1])
            /\ sr.goal = None =>
                 /\ end # sr.start
                 /\ end \in sr.with_parent
                 /\ \A m \in sr.with_parent : sr.h[end] <= sr.h[m]
            /\ sr.goal # None => end = Unwrap(sr.goal)

\* a Focal best_search did not reach the goal and returned a path of two
\* edges although another node with a parent is a child of the start
C30_Witness ==
    /\ sr.call = "focal_best_search"
    /\ ~sr.result.panicked
    /\ sr.goal = None
    /\ Len(sr.result.path) = 3
    /\ Cardinality(sr.with_parent) = 2

====
